---------------------------- MODULE Spec2Model ----------------------------
(***************************************************************************)
(* A model of the shortint engine of tfhe-rs: client-side encryption and   *)
(* decryption (shortint/engine/client_side.rs), accumulator construction   *)
(* (shortint/engine/mod.rs), the bitwise server-key operations             *)
(* (shortint/server_key/bitwise_op.rs) and the radix carry propagation     *)
(* (integer/server_key/radix_parallel/mod.rs).                             *)
(*                                                                         *)
(* An LWE ciphertext is represented by its phase, body - <mask, key>,      *)
(* i.e. the encoded plaintext plus the encryption noise, as a word of the  *)
(* torus.  The torus of the code is u64; TLC's integers are 32 bits wide,  *)
(* so the model's torus has TorusBits bits and every `1_u64 << 63` of the  *)
(* code reads HalfTorus here.                                              *)
(***************************************************************************)
EXTENDS Integers, Naturals, Sequences, FiniteSets, TLC

VARIABLES params, ct_left, ct_right, ct_res, call, blocks,
          memory,        \* the accumulator in the engine's buffers, and its function
          out_handle,    \* the handle and return code of a C API call
          slices,        \* the slices handed to a slice kernel, and its outcome
          local_engine,  \* LOCAL_ENGINE: the engine each thread's slot holds
          threads        \* where each thread is in its server-key operations

vars == <<params, ct_left, ct_right, ct_res, call, blocks,
          memory, out_handle, slices, local_engine, threads>>

\* a variable the operations of a specification do not use
Unused == <<>>

(***************************************************************************)
(* Bounds of the model.                                                    *)
(***************************************************************************)
\* width of the torus word (64 in the code)
TorusBits == 12
\* largest magnitude of the noise drawn by server-side operations
NoiseBound == 1
\* messages handed to the encryption functions range over 0..MaxMessage
MaxMessage == 17
\* message moduli and CRT bases range up to MaxModulus
MaxModulus == 6
\* degrees of the ciphertexts handed to the server: up to MaxInputDegree, or full
MaxInputDegree == 5
\* messages encrypted into radix ciphertexts
MaxRadixMessage == 15
\* what the engine's buffers hold before a call
MaxBufferSeed == 2
\* coefficients of the functions tabulated in accumulators
MaxCoefficient == 2
\* the bytes shown to the C API: up to MaxViewLen bytes of 0 .. MaxByte
MaxViewLen == 5
MaxByte == 2
\* the calls of Memory::as_buffers on one engine
MaxAsBuffersCalls == 3
\* the threads issuing server-key operations, and how many each issues
MaxThreads == 3
MaxOperations == 3
\* the width of a Scalar of the slice kernels, and the longest slice
ScalarBits == 4
MaxLen == 2

TorusModulus == 2 ^ TorusBits
HalfTorus == 2 ^ (TorusBits - 1)

\* u64 wrapping arithmetic
Wrap(x) == x % TorusModulus

WrappingNeg(x) == Wrap(0 - x)

RECURSIVE BitAnd(_, _)
BitAnd(a, b) ==
    IF a = 0 \/ b = 0 THEN 0
    ELSE ((a % 2) * (b % 2)) + 2 * BitAnd(a \div 2, b \div 2)

RECURSIVE BitOr(_, _)
BitOr(a, b) ==
    IF a = 0 THEN b
    ELSE IF b = 0 THEN a
    ELSE (IF (a % 2) + (b % 2) > 0 THEN 1 ELSE 0) + 2 * BitOr(a \div 2, b \div 2)

RECURSIVE BitXor(_, _)
BitXor(a, b) ==
    IF a = 0 THEN b
    ELSE IF b = 0 THEN a
    ELSE (((a % 2) + (b % 2)) % 2) + 2 * BitXor(a \div 2, b \div 2)

RECURSIVE IsPowerOfTwo(_)
IsPowerOfTwo(n) ==
    IF n <= 0 THEN FALSE
    ELSE IF n = 1 THEN TRUE
    ELSE IF n % 2 = 1 THEN FALSE
    ELSE IsPowerOfTwo(n \div 2)

Abs(x) == IF x < 0 THEN 0 - x ELSE x

NoiseSet == {0 - NoiseBound, 0, NoiseBound}

(***************************************************************************)
(* Parameters: message_modulus, carry_modulus, polynomial_size.            *)
(***************************************************************************)
Param(m, c, n) == [message_modulus |-> m, carry_modulus |-> c, polynomial_size |-> n]

\* parameter sets handed to new_client_key in the client-side specification
ClientParamSets ==
    { Param(2, 1, 8), Param(2, 2, 8), Param(4, 1, 8), Param(4, 2, 16),
      Param(4, 4, 32), Param(3, 1, 6), Param(3, 2, 12), Param(5, 1, 10),
      Param(2, 3, 12) }

\* parameter sets of the server-side specification
ServerParamSets == { Param(2, 2, 8), Param(2, 4, 16), Param(4, 2, 16), Param(4, 4, 32) }

ModulusSup(p) == p.message_modulus * p.carry_modulus

Delta(p) == HalfTorus \div ModulusSup(p)

(***************************************************************************)
(* Ciphertexts.  `encoding` records which encoder produced the plaintext   *)
(* (the code leaves it to the caller to pair each encrypt with its         *)
(* decrypt); it is read only by the properties.                            *)
(***************************************************************************)
PBSOrders == {"KeyswitchBootstrap", "BootstrapKeyswitch"}

\* an LWE ciphertext: the key it was encrypted under and its phase
Lwe(key, phase) == [key |-> key, phase |-> phase]

Ciphertext(ct, d, mm, cm, order, enc) ==
    [ct |-> ct, degree |-> d, message_modulus |-> mm, carry_modulus |-> cm,
     order |-> order, encoding |-> enc]

NoCt == Ciphertext(Lwe("none", 0), 0, 1, 1, "KeyswitchBootstrap", "none")

\* allocate_and_encrypt_new_lwe_ciphertext, seen through decryption:
\* body - <mask, key> = encoded + e
LweEncrypt(key, encoded, e) == Lwe(key, Wrap(encoded + e))

\* decrypt_lwe_ciphertext: the phase of the ciphertext under its own key, an
\* unrelated word under another key
LweDecrypt(key, ct) ==
    IF key = ct.key THEN ct.phase ELSE Wrap(ct.phase + (HalfTorus \div 2) + 1)

\* the `match OpOrder::pbs_order()` of the encryption functions
EncryptionKey(order) ==
    IF order = "KeyswitchBootstrap" THEN "large_lwe_secret_key"
    ELSE "small_lwe_secret_key"

\* the `match OpOrder::pbs_order()` of the decryption functions
DecryptionKey(order) ==
    IF order = "KeyswitchBootstrap" THEN "large_lwe_secret_key"
    ELSE "small_lwe_secret_key"

EncryptInnerCt(p, key, e, message, mm) ==
    LET delta == Delta(p)
        m == message % mm
        shifted_message == Wrap(m * delta)
    IN LweEncrypt(key, shifted_message, e)

EncryptWithMessageModulus(p, order, message, mm, e) ==
    LET ct == EncryptInnerCt(p, EncryptionKey(order), e, message, mm)
        carry_modulus == ModulusSup(p) \div mm
    IN Ciphertext(ct, mm - 1, mm, carry_modulus, order, "padded")

\* encrypt_with_message_modulus_compressed keeping the parameters' carry modulus
EncryptWithMessageModulusCompressedKeepingCarry(p, order, message, mm, e) ==
    LET carry_modulus == p.carry_modulus
        delta == Delta(p)
        m == message % mm
        shifted_message == Wrap(m * delta)
        ct == LweEncrypt(EncryptionKey(order), shifted_message, e)
    IN Ciphertext(ct, mm - 1, mm, carry_modulus, order, "padded")

EncryptWithMessageModulusCompressed(p, order, message, mm, e) ==
    LET carry_modulus == ModulusSup(p) \div mm
        delta == Delta(p)
        m == message % mm
        shifted_message == Wrap(m * delta)
        ct == LweEncrypt(EncryptionKey(order), shifted_message, e)
    IN Ciphertext(ct, mm - 1, mm, carry_modulus, order, "padded")

Encrypt(p, order, message, e) ==
    EncryptWithMessageModulus(p, order, message, p.message_modulus, e)

\* unchecked_encrypt reducing its message as encrypt does
UncheckedEncryptReducing(p, order, message, e) ==
    LET delta == Delta(p)
        m == message % p.message_modulus
        shifted_message == Wrap(m * delta)
        ct == LweEncrypt(EncryptionKey(order), shifted_message, e)
    IN Ciphertext(ct, ModulusSup(p) - 1, p.message_modulus, p.carry_modulus,
                  order, "padded")

UncheckedEncrypt(p, order, message, e) ==
    LET delta == Delta(p)
        shifted_message == Wrap(message * delta)
        ct == LweEncrypt(EncryptionKey(order), shifted_message, e)
    IN Ciphertext(ct, ModulusSup(p) - 1, p.message_modulus, p.carry_modulus,
                  order, "padded")

EncryptWithoutPadding(p, order, message, e) ==
    LET delta == Delta(p) * 2
        shifted_message == Wrap(message * delta)
        ct == LweEncrypt(EncryptionKey(order), shifted_message, e)
    IN Ciphertext(ct, p.message_modulus - 1, p.message_modulus, p.carry_modulus,
                  order, "no_padding")

EncryptNativeCrt(p, order, message, basis, e) ==
    LET m == message % basis
        shifted_message == Wrap((m * TorusModulus) \div basis)
        ct == LweEncrypt(EncryptionKey(order), shifted_message, e)
    IN Ciphertext(ct, basis - 1, basis, 1, order, "native_crt")

\* decrypt_message_and_carry without the rounding
DecryptMessageAndCarryTruncating(p, ct) ==
    LET decrypted_u64 == LweDecrypt(DecryptionKey(ct.order), ct.ct)
        delta == Delta(p)
    IN decrypted_u64 \div delta

DecryptMessageAndCarry(p, ct) ==
    LET decrypted_u64 == LweDecrypt(DecryptionKey(ct.order), ct.ct)
        delta == Delta(p)
        rounding_bit == delta \div 2
        rounding == Wrap(BitAnd(decrypted_u64, rounding_bit) * 2)
    IN Wrap(decrypted_u64 + rounding) \div delta

Decrypt(p, ct) == DecryptMessageAndCarry(p, ct) % ct.message_modulus

DecryptMessageAndCarryWithoutPadding(p, ct) ==
    LET decrypted_u64 == LweDecrypt(DecryptionKey(ct.order), ct.ct)
        delta == Delta(p) * 2
        rounding_bit == delta \div 2
        rounding == Wrap(BitAnd(decrypted_u64, rounding_bit) * 2)
    IN Wrap(decrypted_u64 + rounding) \div delta

DecryptWithoutPadding(p, ct) ==
    DecryptMessageAndCarryWithoutPadding(p, ct) % ct.message_modulus

\* decrypt_message_native_crt without the rounding bit
DecryptMessageNativeCrtTruncating(ct, basis) ==
    LET decrypted_u64 == LweDecrypt(DecryptionKey(ct.order), ct.ct)
        result == decrypted_u64 * basis
    IN (result \div TorusModulus) % basis

\* the product is taken in u128 and does not wrap
DecryptMessageNativeCrt(ct, basis) ==
    LET decrypted_u64 == LweDecrypt(DecryptionKey(ct.order), ct.ct)
        result == decrypted_u64 * basis
        rounded == (result + BitAnd(result, HalfTorus) * 2) \div TorusModulus
    IN rounded % basis

(***************************************************************************)
(* Accumulators (lookup tables).  A GLWE ciphertext of dimension 1: a mask *)
(* and a body polynomial of polynomial_size coefficients.  A function f    *)
(* over [0, message_modulus * carry_modulus) is given by its table.        *)
(***************************************************************************)
Coefficients(p) == 0 .. (p.polynomial_size - 1)

\* GlweCiphertext::new(0, ...)
GlweZero(p) == [mask |-> [j \in Coefficients(p) |-> 0],
                body |-> [j \in Coefficients(p) |-> 0]]

MaxOf(S) == IF S = {} THEN 0 ELSE CHOOSE x \in S : \A y \in S : y <= x

\* fill_accumulator without the rotation by half a box
FillAccumulatorUnrotated(accumulator, p, f) ==
    LET n == p.polynomial_size
        modulus_sup == p.message_modulus * p.carry_modulus
        box_size == n \div modulus_sup
        delta == HalfTorus \div (p.message_modulus * p.carry_modulus)
        max_value == IF box_size = 0 THEN 0
                     ELSE MaxOf({f[i] : i \in 0 .. (modulus_sup - 1)})
        filled == [j \in Coefficients(p) |->
                     IF j < modulus_sup * box_size
                     THEN Wrap(f[j \div box_size] * delta)
                     ELSE accumulator.body[j]]
        half_box_size == box_size \div 2
        negated == [j \in Coefficients(p) |->
                      IF j < half_box_size THEN WrappingNeg(filled[j]) ELSE filled[j]]
    IN [acc |-> [mask |-> [j \in Coefficients(p) |-> 0], body |-> negated],
        max_value |-> max_value]

\* fill_accumulator: the accumulator filled and the max value of f
FillAccumulator(accumulator, p, f) ==
    LET n == p.polynomial_size
        modulus_sup == p.message_modulus * p.carry_modulus
        box_size == n \div modulus_sup
        delta == HalfTorus \div (p.message_modulus * p.carry_modulus)
        \* the loop over the boxes writes only when a box holds a coefficient
        max_value == IF box_size = 0 THEN 0
                     ELSE MaxOf({f[i] : i \in 0 .. (modulus_sup - 1)})
        filled == [j \in Coefficients(p) |->
                     IF j < modulus_sup * box_size
                     THEN Wrap(f[j \div box_size] * delta)
                     ELSE accumulator.body[j]]
        half_box_size == box_size \div 2
        negated == [j \in Coefficients(p) |->
                      IF j < half_box_size THEN WrappingNeg(filled[j]) ELSE filled[j]]
        rotated == [j \in Coefficients(p) |-> negated[(j + half_box_size) % n]]
    IN [acc |-> [mask |-> [j \in Coefficients(p) |-> 0], body |-> rotated],
        max_value |-> max_value]

LookupTable(acc, degree) == [acc |-> acc, degree |-> degree]

\* generate_accumulator keeping the largest degree of the parameters
GenerateAccumulatorMaxDegree(p, f) ==
    LET filled == FillAccumulator(GlweZero(p), p, f)
    IN LookupTable(filled.acc, ModulusSup(p) - 1)

GenerateAccumulator(p, f) ==
    LET filled == FillAccumulator(GlweZero(p), p, f)
    IN LookupTable(filled.acc, filled.max_value)

\* generate_accumulator_bivariate handing rhs and lhs to f the other way round
GenerateAccumulatorBivariateSwapped(p, f2, left_message_scaling) ==
    LET factor_u64 == left_message_scaling
        message_modulus == p.message_modulus
        wrapped_f == [input \in 0 .. (ModulusSup(p) - 1) |->
                        LET lhs == (input \div factor_u64) % message_modulus
                            rhs == (input % factor_u64) % message_modulus
                        IN f2[rhs][lhs]]
    IN [acc |-> GenerateAccumulator(p, wrapped_f),
        ct_right_modulus |-> left_message_scaling]

\* generate_accumulator_bivariate without the reduction of lhs and rhs
GenerateAccumulatorBivariateUnreduced(p, f2, left_message_scaling) ==
    LET factor_u64 == left_message_scaling
        wrapped_f == [input \in 0 .. (ModulusSup(p) - 1) |->
                        LET lhs == input \div factor_u64
                            rhs == input % factor_u64
                        IN f2[lhs][rhs]]
    IN [acc |-> GenerateAccumulator(p, wrapped_f),
        ct_right_modulus |-> left_message_scaling]

\* f2[lhs][rhs] is the bivariate function
GenerateAccumulatorBivariate(p, f2, left_message_scaling) ==
    LET factor_u64 == left_message_scaling
        message_modulus == p.message_modulus
        wrapped_f == [input \in 0 .. (ModulusSup(p) - 1) |->
                        LET lhs == (input \div factor_u64) % message_modulus
                            rhs == (input % factor_u64) % message_modulus
                        IN f2[lhs][rhs]]
    IN [acc |-> GenerateAccumulator(p, wrapped_f),
        ct_right_modulus |-> left_message_scaling]

\* get_carry_clearing_accumulator_and_buffers leaving the degree of as_buffers
CarryClearingAccumulatorStaleDegree(arena, p) ==
    LET filled == FillAccumulator(arena, p,
                      [n \in 0 .. (ModulusSup(p) - 1) |-> n % p.message_modulus])
    IN LookupTable(filled.acc, ModulusSup(p) - 1)

\* the accumulator of get_carry_clearing_accumulator_and_buffers, filled over
\* what the arena holds
CarryClearingAccumulator(arena, p) ==
    LET filled == FillAccumulator(arena, p,
                      [n \in 0 .. (ModulusSup(p) - 1) |-> n % p.message_modulus])
    IN LookupTable(filled.acc, filled.max_value)

(***************************************************************************)
(* The tables the operations below generate at each call depend on the     *)
(* server key and the function alone: they are evaluated once per          *)
(* parameter set.                                                          *)
(***************************************************************************)
\* the closures |x, y| x & y, x ^ y, x | y take any two values
Values(p) == 0 .. (ModulusSup(p) - 1)

BivariateFunction(p, function) ==
    [x \in Values(p) |-> [y \in Values(p) |->
        CASE function = "bitand" -> BitAnd(x, y)
          [] function = "bitxor" -> BitXor(x, y)
          [] function = "bitor" -> BitOr(x, y)]]

\* a table with its coefficients evaluated
Evaluated(table) ==
    [acc |-> [mask |-> (<<>> @@ table.acc.mask), body |-> (<<>> @@ table.acc.body)],
     degree |-> table.degree]

BivariateTables ==
    [p \in ServerParamSets |->
        [function \in {"bitand", "bitxor", "bitor"} |->
            LET table == GenerateAccumulatorBivariate(p, BivariateFunction(p, function),
                                                      p.message_modulus)
            IN [acc |-> Evaluated(table.acc),
                ct_right_modulus |-> table.ct_right_modulus]]]

CarryClearingTables ==
    [p \in ServerParamSets |-> Evaluated(CarryClearingAccumulator(GlweZero(p), p))]

(***************************************************************************)
(* Programmable bootstrap, as the specification describes it (4.5): the    *)
(* phase is switched to modulus 2N, the accumulator is rotated by it       *)
(* (negacyclically) and coefficient 0 is extracted, with a fresh noise e.  *)
(***************************************************************************)
ModulusSwitch(p, phase) ==
    ((phase * 2 * p.polynomial_size + HalfTorus) \div TorusModulus)
        % (2 * p.polynomial_size)

BlindRotateAndExtract(p, acc, phase) ==
    LET index == ModulusSwitch(p, phase)
    IN IF index < p.polynomial_size
       THEN acc.body[index]
       ELSE WrappingNeg(acc.body[index - p.polynomial_size])

ApplyLookupTable(p, ct, table, e) ==
    [ct EXCEPT !.ct = Lwe(ct.ct.key,
                          Wrap(BlindRotateAndExtract(p, table.acc, ct.ct.phase) + e)),
               !.degree = table.degree,
               !.encoding = "padded"]

\* carry_is_empty: degree < message_modulus
CarryIsEmpty(ct) == ct.degree < ct.message_modulus

\* clear_carry: the carry-clearing bootstrap
ClearCarry(p, ct, e) == ApplyLookupTable(p, ct, CarryClearingTables[p], e)

\* is_functional_bivariate_pbs_possible, as the specification states it (4.7)
IsFunctionalBivariatePbsPossible(p, ct1, ct2) ==
    (ct1.degree + 1) * p.message_modulus + ct2.degree
        < p.message_modulus * p.carry_modulus

\* the engine's bivariate evaluation: ct_left * scaling + ct_right, then the
\* bootstrap with the bivariate accumulator of the function under scaling
\* message_modulus
UncheckedEvaluateBivariateFunction(p, left, right, function, e) ==
    LET table == BivariateTables[p][function]
        packed == [left EXCEPT
                     !.ct = Lwe(left.ct.key,
                                Wrap(left.ct.phase * table.ct_right_modulus
                                     + right.ct.phase))]
    IN ApplyLookupTable(p, packed, table.acc, e)

EngineUncheckedBitand(p, left, right, e) ==
    UncheckedEvaluateBivariateFunction(p, left, right, "bitand", e)
EngineUncheckedBitxor(p, left, right, e) ==
    UncheckedEvaluateBivariateFunction(p, left, right, "bitxor", e)
EngineUncheckedBitor(p, left, right, e) ==
    UncheckedEvaluateBivariateFunction(p, left, right, "bitor", e)

(***************************************************************************)
(* The server key's bitwise operations.  Each returns the ciphertexts it   *)
(* was handed as the call leaves them, its result (NoCt when the result is *)
(* written to ct_left or when the call fails) and whether it succeeded     *)
(* (FALSE is CarryFull).                                                   *)
(***************************************************************************)
\* unchecked_bitand
UncheckedBitand(p, left, right, e) ==
    [left |-> left, right |-> right,
     res |-> EngineUncheckedBitand(p, left, right, e), ok |-> TRUE]

\* unchecked_bitand_assign
UncheckedBitandAssign(p, left, right, e) ==
    [left |-> EngineUncheckedBitand(p, left, right, e), right |-> right,
     res |-> NoCt, ok |-> TRUE]

\* bitand_assign clearing the carry of ct_right in place
BitandAssignClearingRight(p, left, right, e1, e2, e3) ==
    LET cleared_left == IF ~CarryIsEmpty(left) THEN ClearCarry(p, left, e1) ELSE left
        rhs == IF CarryIsEmpty(right) THEN right ELSE ClearCarry(p, right, e2)
        out == UncheckedBitandAssign(p, cleared_left, rhs, e3)
    IN [left |-> out.left, right |-> rhs, res |-> NoCt, ok |-> TRUE]

\* bitand_assign
BitandAssign(p, left, right, e1, e2, e3) ==
    LET cleared_left == IF ~CarryIsEmpty(left) THEN ClearCarry(p, left, e1) ELSE left
        rhs == IF CarryIsEmpty(right) THEN right ELSE ClearCarry(p, right, e2)
        out == UncheckedBitandAssign(p, cleared_left, rhs, e3)
    IN [left |-> out.left, right |-> right, res |-> NoCt, ok |-> TRUE]

\* bitand
Bitand(p, left, right, e1, e2, e3) ==
    LET ct_res_clone == left
        out == BitandAssign(p, ct_res_clone, right, e1, e2, e3)
    IN [left |-> left, right |-> out.right, res |-> out.left, ok |-> TRUE]

\* checked_bitand
CheckedBitand(p, left, right, e) ==
    IF IsFunctionalBivariatePbsPossible(p, left, right)
    THEN UncheckedBitand(p, left, right, e)
    ELSE [left |-> left, right |-> right, res |-> NoCt, ok |-> FALSE]

\* checked_bitand_assign running the operation before the check
CheckedBitandAssignEager(p, left, right, e) ==
    LET out == UncheckedBitandAssign(p, left, right, e)
    IN IF IsFunctionalBivariatePbsPossible(p, left, right)
       THEN out
       ELSE [out EXCEPT !.ok = FALSE]

\* checked_bitand_assign
CheckedBitandAssign(p, left, right, e) ==
    IF IsFunctionalBivariatePbsPossible(p, left, right)
    THEN UncheckedBitandAssign(p, left, right, e)
    ELSE [left |-> left, right |-> right, res |-> NoCt, ok |-> FALSE]

\* unchecked_bitxor
UncheckedBitxor(p, left, right, e) ==
    [left |-> left, right |-> right,
     res |-> EngineUncheckedBitxor(p, left, right, e), ok |-> TRUE]

\* unchecked_bitxor_assign
UncheckedBitxorAssign(p, left, right, e) ==
    [left |-> EngineUncheckedBitxor(p, left, right, e), right |-> right,
     res |-> NoCt, ok |-> TRUE]

\* bitxor_assign using ct_right with its carry as it is
BitxorAssignKeepingRightCarry(p, left, right, e1, e2, e3) ==
    LET cleared_left == IF ~CarryIsEmpty(left) THEN ClearCarry(p, left, e1) ELSE left
        out == UncheckedBitxorAssign(p, cleared_left, right, e3)
    IN [left |-> out.left, right |-> right, res |-> NoCt, ok |-> TRUE]

\* bitxor_assign
BitxorAssign(p, left, right, e1, e2, e3) ==
    LET cleared_left == IF ~CarryIsEmpty(left) THEN ClearCarry(p, left, e1) ELSE left
        rhs == IF CarryIsEmpty(right) THEN right ELSE ClearCarry(p, right, e2)
        out == UncheckedBitxorAssign(p, cleared_left, rhs, e3)
    IN [left |-> out.left, right |-> right, res |-> NoCt, ok |-> TRUE]

\* bitxor
Bitxor(p, left, right, e1, e2, e3) ==
    LET ct_res_clone == left
        out == BitxorAssign(p, ct_res_clone, right, e1, e2, e3)
    IN [left |-> left, right |-> out.right, res |-> out.left, ok |-> TRUE]

\* checked_bitxor
CheckedBitxor(p, left, right, e) ==
    IF IsFunctionalBivariatePbsPossible(p, left, right)
    THEN UncheckedBitxor(p, left, right, e)
    ELSE [left |-> left, right |-> right, res |-> NoCt, ok |-> FALSE]

\* checked_bitxor_assign checking the pair the other way round
CheckedBitxorAssignSwapped(p, left, right, e) ==
    IF IsFunctionalBivariatePbsPossible(p, right, left)
    THEN UncheckedBitxorAssign(p, left, right, e)
    ELSE [left |-> left, right |-> right, res |-> NoCt, ok |-> FALSE]

\* checked_bitxor_assign
CheckedBitxorAssign(p, left, right, e) ==
    IF IsFunctionalBivariatePbsPossible(p, left, right)
    THEN UncheckedBitxorAssign(p, left, right, e)
    ELSE [left |-> left, right |-> right, res |-> NoCt, ok |-> FALSE]

\* unchecked_bitor
UncheckedBitor(p, left, right, e) ==
    [left |-> left, right |-> right,
     res |-> EngineUncheckedBitor(p, left, right, e), ok |-> TRUE]

\* unchecked_bitor_assign
UncheckedBitorAssign(p, left, right, e) ==
    [left |-> EngineUncheckedBitor(p, left, right, e), right |-> right,
     res |-> NoCt, ok |-> TRUE]

\* bitor_assign
BitorAssign(p, left, right, e1, e2, e3) ==
    LET cleared_left == IF ~CarryIsEmpty(left) THEN ClearCarry(p, left, e1) ELSE left
        rhs == IF CarryIsEmpty(right) THEN right ELSE ClearCarry(p, right, e2)
        out == UncheckedBitorAssign(p, cleared_left, rhs, e3)
    IN [left |-> out.left, right |-> right, res |-> NoCt, ok |-> TRUE]

\* bitor
Bitor(p, left, right, e1, e2, e3) ==
    LET ct_res_clone == left
        out == BitorAssign(p, ct_res_clone, right, e1, e2, e3)
    IN [left |-> left, right |-> out.right, res |-> out.left, ok |-> TRUE]

\* checked_bitor
CheckedBitor(p, left, right, e) ==
    IF IsFunctionalBivariatePbsPossible(p, left, right)
    THEN UncheckedBitor(p, left, right, e)
    ELSE [left |-> left, right |-> right, res |-> NoCt, ok |-> FALSE]

\* checked_bitor_assign
CheckedBitorAssign(p, left, right, e) ==
    IF IsFunctionalBivariatePbsPossible(p, left, right)
    THEN UncheckedBitorAssign(p, left, right, e)
    ELSE [left |-> left, right |-> right, res |-> NoCt, ok |-> FALSE]

(***************************************************************************)
(* The record of the last call: the operation, its arguments, the          *)
(* ciphertexts it was given and what it returned.                          *)
(***************************************************************************)
Call(op, message, modulus, noise) ==
    [op |-> op, message |-> message, modulus |-> modulus, noise |-> noise,
     dec |-> "none", out |-> 0, out_mc |-> 0,
     ok |-> TRUE, left0 |-> NoCt, right0 |-> NoCt]

NoCall == Call("none", 0, 0, 0)

Messages == 0 .. MaxMessage

\* message moduli handed to encrypt_with_message_modulus (0 makes
\* `message % message_modulus` panic: no ciphertext is returned)
MessageModuli == 1 .. MaxModulus

\* bases handed to encrypt_native_crt (a u8, 0 excluded as above)
Bases == 2 .. MaxModulus

\* the noise of a fresh encryption: everything up to half a delta, included
EncryptionNoise(p) == (0 - (Delta(p) \div 2)) .. (Delta(p) \div 2)

\* the noise of a native CRT encryption: small, and at the end of the range
\* |e| * basis < 2^(w-1)
NativeCrtNoise(basis) ==
    LET largest == (HalfTorus - 1) \div basis
    IN  { e \in (0 - largest) .. largest :
            Abs(e) \in {0, NoiseBound, largest - 1, largest} }

(***************************************************************************)
(* Client side: one ciphertext, ct_res, encrypted and then decrypted.      *)
(* An encryption reads nothing of the earlier calls and overwrites their   *)
(* result, so the states after a sequence of encryptions are the states    *)
(* after its last one: each behaviour encrypts once.                       *)
(***************************************************************************)
InitClient ==
    /\ params \in ClientParamSets
    /\ ct_left = NoCt
    /\ ct_right = NoCt
    /\ ct_res = NoCt
    /\ call = NoCall
    /\ blocks = <<>>
    /\ memory = Unused
    /\ out_handle = Unused
    /\ slices = Unused
    /\ local_engine = Unused
    /\ threads = Unused

ClientEncrypt ==
    /\ call.op = "none"
    /\ \E order \in PBSOrders, m \in Messages, e \in EncryptionNoise(params) :
        /\ ct_res' = Encrypt(params, order, m, e)
        /\ call' = Call("encrypt", m, params.message_modulus, e)
        /\ UNCHANGED <<params, ct_left, ct_right, blocks, memory, out_handle, slices,
                       local_engine, threads>>

ClientEncryptWithMessageModulus ==
    /\ call.op = "none"
    /\ \E order \in PBSOrders, m \in Messages, mm \in MessageModuli, e \in NoiseSet :
        /\ ct_res' = EncryptWithMessageModulus(params, order, m, mm, e)
        /\ call' = Call("encrypt_with_message_modulus", m, mm, e)
        /\ UNCHANGED <<params, ct_left, ct_right, blocks, memory, out_handle, slices,
                       local_engine, threads>>

ClientEncryptWithMessageModulusCompressed ==
    /\ call.op = "none"
    /\ \E order \in PBSOrders, m \in Messages, mm \in MessageModuli, e \in NoiseSet :
        /\ ct_res' = EncryptWithMessageModulusCompressed(params, order, m, mm, e)
        /\ call' = Call("encrypt_with_message_modulus_compressed", m, mm, e)
        /\ UNCHANGED <<params, ct_left, ct_right, blocks, memory, out_handle, slices,
                       local_engine, threads>>

ClientUncheckedEncrypt ==
    /\ call.op = "none"
    /\ \E order \in PBSOrders, m \in Messages, e \in NoiseSet :
        /\ ct_res' = UncheckedEncrypt(params, order, m, e)
        /\ call' = Call("unchecked_encrypt", m, params.message_modulus, e)
        /\ UNCHANGED <<params, ct_left, ct_right, blocks, memory, out_handle, slices,
                       local_engine, threads>>

ClientEncryptWithoutPadding ==
    /\ call.op = "none"
    /\ \E order \in PBSOrders, m \in Messages, e \in NoiseSet :
        /\ ct_res' = EncryptWithoutPadding(params, order, m, e)
        /\ call' = Call("encrypt_without_padding", m, params.message_modulus, e)
        /\ UNCHANGED <<params, ct_left, ct_right, blocks, memory, out_handle, slices,
                       local_engine, threads>>

ClientEncryptNativeCrt ==
    /\ call.op = "none"
    /\ \E order \in PBSOrders, m \in Messages, basis \in Bases :
       \E e \in NativeCrtNoise(basis) :
        /\ ct_res' = EncryptNativeCrt(params, order, m, basis, e)
        /\ call' = Call("encrypt_native_crt", m, basis, e)
        /\ UNCHANGED <<params, ct_left, ct_right, blocks, memory, out_handle, slices,
                       local_engine, threads>>

\* decrypt and decrypt_message_and_carry of a ciphertext with a padding bit
ClientDecrypt ==
    /\ ct_res.encoding = "padded"
    /\ call.dec = "none"
    /\ call' = [call EXCEPT !.dec = "decrypt",
                            !.out = Decrypt(params, ct_res),
                            !.out_mc = DecryptMessageAndCarry(params, ct_res)]
    /\ UNCHANGED <<params, ct_left, ct_right, ct_res, blocks,
                 memory, out_handle, slices, local_engine, threads>>

ClientDecryptWithoutPadding ==
    /\ ct_res.encoding = "no_padding"
    /\ call.dec = "none"
    /\ call' = [call EXCEPT !.dec = "decrypt_without_padding",
                            !.out = DecryptWithoutPadding(params, ct_res),
                            !.out_mc = DecryptMessageAndCarryWithoutPadding(params, ct_res)]
    /\ UNCHANGED <<params, ct_left, ct_right, ct_res, blocks,
                 memory, out_handle, slices, local_engine, threads>>

ClientDecryptMessageNativeCrt ==
    /\ ct_res.encoding = "native_crt"
    /\ call.dec = "none"
    /\ call' = [call EXCEPT !.dec = "decrypt_message_native_crt",
                            !.out = DecryptMessageNativeCrt(ct_res, call.modulus),
                            !.out_mc = 0]
    /\ UNCHANGED <<params, ct_left, ct_right, ct_res, blocks,
                 memory, out_handle, slices, local_engine, threads>>

NextClient ==
    \/ ClientEncrypt
    \/ ClientEncryptWithMessageModulus
    \/ ClientEncryptWithMessageModulusCompressed
    \/ ClientUncheckedEncrypt
    \/ ClientEncryptWithoutPadding
    \/ ClientEncryptNativeCrt
    \/ ClientDecrypt
    \/ ClientDecryptWithoutPadding
    \/ ClientDecryptMessageNativeCrt

SpecClient == InitClient /\ [][NextClient]_vars

(***************************************************************************)
(* Server side: two ciphertexts, ct_left and ct_right, under one server    *)
(* key, and one call of a bitwise operation on them.  The ciphertexts      *)
(* handed in are those any earlier computation may have left: a value v    *)
(* with a degree d that bounds it, d up to MaxInputDegree or the full      *)
(* message_modulus * carry_modulus - 1 (as after unchecked_encrypt).       *)
(***************************************************************************)
InputValueDegrees(p) ==
    { vd \in (0 .. (ModulusSup(p) - 1)) \X (0 .. (ModulusSup(p) - 1)) :
        /\ vd[1] <= vd[2]
        /\ (vd[2] <= MaxInputDegree \/ vd[2] = ModulusSup(p) - 1) }

InputCiphertexts(p, noise) ==
    { Ciphertext(LweEncrypt(EncryptionKey("KeyswitchBootstrap"), vd[1] * Delta(p), e),
                 vd[2], p.message_modulus, p.carry_modulus,
                 "KeyswitchBootstrap", "padded") :
        vd \in InputValueDegrees(p), e \in noise }

InitServer ==
    /\ params \in ServerParamSets
    /\ ct_left \in InputCiphertexts(params, NoiseSet)
    /\ ct_right \in InputCiphertexts(params, {0})
    /\ ct_res = NoCt
    /\ call = NoCall
    /\ blocks = <<>>
    /\ memory = Unused
    /\ out_handle = Unused
    /\ slices = Unused
    /\ local_engine = Unused
    /\ threads = Unused

\* the noise of the bootstrap that clears the carry of ct: drawn when it runs
ClearNoise(ct) == IF CarryIsEmpty(ct) THEN {0} ELSE NoiseSet

\* the state after a call that returned `out`
Returned(op, out) ==
    /\ call.op = "none"
    /\ ct_left' = out.left
    /\ ct_right' = out.right
    /\ ct_res' = out.res
    /\ call' = [Call(op, 0, 0, 0) EXCEPT !.ok = out.ok,
                                         !.left0 = ct_left,
                                         !.right0 = ct_right]
    /\ UNCHANGED <<params, blocks, memory, out_handle, slices,
                   local_engine, threads>>

ServerBitand ==
    \E e1 \in ClearNoise(ct_left), e2 \in ClearNoise(ct_right), e3 \in NoiseSet :
        Returned("bitand", Bitand(params, ct_left, ct_right, e1, e2, e3))

ServerBitandAssign ==
    \E e1 \in ClearNoise(ct_left), e2 \in ClearNoise(ct_right), e3 \in NoiseSet :
        Returned("bitand_assign", BitandAssign(params, ct_left, ct_right, e1, e2, e3))

ServerUncheckedBitand ==
    \E e \in NoiseSet :
        Returned("unchecked_bitand", UncheckedBitand(params, ct_left, ct_right, e))

ServerUncheckedBitandAssign ==
    \E e \in NoiseSet :
        Returned("unchecked_bitand_assign", UncheckedBitandAssign(params, ct_left, ct_right, e))

ServerCheckedBitand ==
    \E e \in NoiseSet :
        Returned("checked_bitand", CheckedBitand(params, ct_left, ct_right, e))

ServerCheckedBitandAssign ==
    \E e \in NoiseSet :
        Returned("checked_bitand_assign", CheckedBitandAssign(params, ct_left, ct_right, e))

ServerBitxor ==
    \E e1 \in ClearNoise(ct_left), e2 \in ClearNoise(ct_right), e3 \in NoiseSet :
        Returned("bitxor", Bitxor(params, ct_left, ct_right, e1, e2, e3))

ServerBitxorAssign ==
    \E e1 \in ClearNoise(ct_left), e2 \in ClearNoise(ct_right), e3 \in NoiseSet :
        Returned("bitxor_assign", BitxorAssign(params, ct_left, ct_right, e1, e2, e3))

ServerUncheckedBitxor ==
    \E e \in NoiseSet :
        Returned("unchecked_bitxor", UncheckedBitxor(params, ct_left, ct_right, e))

ServerUncheckedBitxorAssign ==
    \E e \in NoiseSet :
        Returned("unchecked_bitxor_assign", UncheckedBitxorAssign(params, ct_left, ct_right, e))

ServerCheckedBitxor ==
    \E e \in NoiseSet :
        Returned("checked_bitxor", CheckedBitxor(params, ct_left, ct_right, e))

ServerCheckedBitxorAssign ==
    \E e \in NoiseSet :
        Returned("checked_bitxor_assign", CheckedBitxorAssign(params, ct_left, ct_right, e))

ServerBitor ==
    \E e1 \in ClearNoise(ct_left), e2 \in ClearNoise(ct_right), e3 \in NoiseSet :
        Returned("bitor", Bitor(params, ct_left, ct_right, e1, e2, e3))

ServerBitorAssign ==
    \E e1 \in ClearNoise(ct_left), e2 \in ClearNoise(ct_right), e3 \in NoiseSet :
        Returned("bitor_assign", BitorAssign(params, ct_left, ct_right, e1, e2, e3))

ServerUncheckedBitor ==
    \E e \in NoiseSet :
        Returned("unchecked_bitor", UncheckedBitor(params, ct_left, ct_right, e))

ServerUncheckedBitorAssign ==
    \E e \in NoiseSet :
        Returned("unchecked_bitor_assign", UncheckedBitorAssign(params, ct_left, ct_right, e))

ServerCheckedBitor ==
    \E e \in NoiseSet :
        Returned("checked_bitor", CheckedBitor(params, ct_left, ct_right, e))

ServerCheckedBitorAssign ==
    \E e \in NoiseSet :
        Returned("checked_bitor_assign", CheckedBitorAssign(params, ct_left, ct_right, e))

NextServer ==
    \/ ServerBitand
    \/ ServerBitandAssign
    \/ ServerUncheckedBitand
    \/ ServerUncheckedBitandAssign
    \/ ServerCheckedBitand
    \/ ServerCheckedBitandAssign
    \/ ServerBitxor
    \/ ServerBitxorAssign
    \/ ServerUncheckedBitxor
    \/ ServerUncheckedBitxorAssign
    \/ ServerCheckedBitxor
    \/ ServerCheckedBitxorAssign
    \/ ServerBitor
    \/ ServerBitorAssign
    \/ ServerUncheckedBitor
    \/ ServerUncheckedBitorAssign
    \/ ServerCheckedBitor
    \/ ServerCheckedBitorAssign

Spec == InitServer /\ [][NextServer]_vars

(***************************************************************************)
(* Properties.                                                             *)
(***************************************************************************)

\* the integer a ciphertext encodes (message and carry), decoded as its
\* encoding is decoded
EncodedValue(ct) ==
    CASE ct.encoding = "padded" -> DecryptMessageAndCarry(params, ct)
      [] ct.encoding = "no_padding" -> DecryptMessageAndCarryWithoutPadding(params, ct)
      [] ct.encoding = "native_crt" -> DecryptMessageNativeCrt(ct, ct.message_modulus)
      [] OTHER -> 0

\* C1: degree soundness: the integer encoded in a ciphertext an encryption
\* returned (whatever the message argument), decoded with zero noise, is at
\* most the ciphertext's degree (checked where decoding is exact: on the
\* parameter sets whose message_modulus * carry_modulus is a power of two).
C1_DegreeSoundness ==
    (call.op # "none" /\ call.noise = 0 /\ IsPowerOfTwo(ModulusSup(params))) =>
        EncodedValue(ct_res) <= ct_res.degree

\* a call of encrypt, decrypted by decrypt, whose noise is below half a delta
RoundTripCase ==
    /\ call.op = "encrypt"
    /\ call.dec = "decrypt"
    /\ call.message < params.message_modulus
    /\ 2 * Abs(call.noise) < Delta(params)

\* C2, as stated: for every parameter set, power of two or not, every m in
\* [0, message_modulus), both pbs orders and every noise e with |e| < delta/2,
\* decrypt(encrypt(m)) = m.
C2_RoundTripAnyModulus == RoundTripCase => call.out = call.message

\* C2, amended: decrypt(encrypt(m)) = m for every parameter set whose
\* message_modulus * carry_modulus is a power of two, every m in
\* [0, message_modulus), both pbs orders and every noise e with |e| < delta/2.
C2_RoundTripPowerOfTwo ==
    (RoundTripCase /\ IsPowerOfTwo(ModulusSup(params))) => call.out = call.message

\* a non-zero message, under the small key, with the most negative noise allowed,
\* is decrypted to itself
C2_Witness ==
    /\ RoundTripCase
    /\ IsPowerOfTwo(ModulusSup(params))
    /\ params.carry_modulus > 1
    /\ ct_res.order = "BootstrapKeyswitch"
    /\ call.message > 0
    /\ call.noise < 0
    /\ 2 * (Abs(call.noise) + 1) >= Delta(params)
    /\ call.out = call.message

WithMessageModulusCase ==
    call.op \in {"encrypt_with_message_modulus", "encrypt_with_message_modulus_compressed"}

\* C3, as stated: the ciphertext returned by encrypt_with_message_modulus (and its
\* compressed variant) has degree = message_modulus - 1 and a carry_modulus such
\* that message_modulus * carry_modulus equals the product of the parameters.
C3_CarryModulusProductEqual ==
    WithMessageModulusCase =>
        /\ ct_res.degree = call.modulus - 1
        /\ ct_res.message_modulus * ct_res.carry_modulus = ModulusSup(params)

\* C3, amended: the ciphertext returned has degree = message_modulus - 1, the
\* message modulus passed, and carry_modulus = floor(P / message_modulus) with P the
\* product of the parameters' moduli: message_modulus * carry_modulus is at most P,
\* and equals P exactly when message_modulus divides P.
C3_CarryModulusProductAtMost ==
    WithMessageModulusCase =>
        /\ ct_res.degree = call.modulus - 1
        /\ ct_res.message_modulus = call.modulus
        /\ ct_res.carry_modulus = ModulusSup(params) \div call.modulus
        /\ ct_res.message_modulus * ct_res.carry_modulus <= ModulusSup(params)
        /\ (ct_res.message_modulus * ct_res.carry_modulus = ModulusSup(params))
               <=> (ModulusSup(params) % call.modulus = 0)

\* a message modulus that does not divide the parameters' product: 3 under 4 * 4
C3_Witness ==
    /\ call.op = "encrypt_with_message_modulus_compressed"
    /\ ModulusSup(params) = 16
    /\ call.modulus = 3
    /\ ct_res.degree = 2
    /\ ct_res.carry_modulus = 5

(***************************************************************************)
(* The bitwise operations of the server key (specification Spec).          *)
(***************************************************************************)
CheckedOps == {"checked_bitand", "checked_bitxor", "checked_bitor"}
CheckedAssignOps ==
    {"checked_bitand_assign", "checked_bitxor_assign", "checked_bitor_assign"}
DefaultOps == {"bitand", "bitxor", "bitor"}
DefaultAssignOps == {"bitand_assign", "bitxor_assign", "bitor_assign"}

\* the clear function an operation computes on two values
ClearOp(op, l, r) ==
    CASE op \in {"bitand", "bitand_assign", "checked_bitand",
                 "checked_bitand_assign"} -> BitAnd(l, r)
      [] op \in {"bitxor", "bitxor_assign", "checked_bitxor",
                 "checked_bitxor_assign"} -> BitXor(l, r)
      [] OTHER -> BitOr(l, r)

\* the unchecked operation a checked operation runs when the check passes
UncheckedResult(op, left, right, e) ==
    CASE op \in {"checked_bitand", "checked_bitand_assign"} ->
            EngineUncheckedBitand(params, left, right, e)
      [] op \in {"checked_bitxor", "checked_bitxor_assign"} ->
            EngineUncheckedBitxor(params, left, right, e)
      [] OTHER -> EngineUncheckedBitor(params, left, right, e)

\* the ciphertext an operation that was called hands back
Output == IF call.op \in (CheckedOps \cup DefaultOps) THEN ct_res ELSE ct_left

FreshPairCase ==
    /\ call.op \in (CheckedOps \cup CheckedAssignOps)
    /\ params.message_modulus = 4
    /\ params.carry_modulus = 4
    /\ call.left0.degree = 3
    /\ call.right0.degree = 3

\* C5: on two fresh encryptions of m1 and m2 under message_modulus =
\* carry_modulus = 4 every checked operation returns Ok and its result
\* decrypts to m1 op m2.
C5_FreshCheckedOk ==
    FreshPairCase =>
        /\ call.ok
        /\ Decrypt(params, Output)
             = ClearOp(call.op, Decrypt(params, call.left0),
                       Decrypt(params, call.right0))

\* C6: when a checked assign operation returns CarryFull, ct_left and
\* ct_right are what they were before the call.
C6_CarryFullLeavesInputs ==
    (call.op \in CheckedAssignOps /\ ~call.ok) =>
        /\ ct_left = call.left0
        /\ ct_right = call.right0

C6_Witness ==
    /\ call.op = "checked_bitand_assign"
    /\ ~call.ok
    /\ ct_left.degree = ModulusSup(params) - 1
    /\ ct_left.ct.phase # 0

LeftValue == DecryptMessageAndCarry(params, call.left0)
RightValue == DecryptMessageAndCarry(params, call.right0)

C9_DefaultInputsUnchanged ==
    /\ call.op \in (DefaultOps \cup DefaultAssignOps) => ct_right = call.right0
    /\ call.op \in DefaultOps => ct_left = call.left0

C9_Witness ==
    /\ call.op = "bitxor_assign"
    /\ ~CarryIsEmpty(call.right0)
    /\ ct_right = call.right0
    /\ ct_left # call.left0

(***************************************************************************)
(* The integer layer: a radix ciphertext is a sequence of blocks, least    *)
(* significant first, and propagate_parallelized moves the carry of one    *)
(* block (specification SpecRadix).                                        *)
(***************************************************************************)
RadixParamSets == { Param(2, 2, 8), Param(4, 4, 32) }

\* let num_blocks = 4, as in the examples of propagate_parallelized
NumBlocks == 4

RadixMessages == 0 .. MaxRadixMessage

RECURSIVE Power(_, _)
Power(b, n) == IF n = 0 THEN 1 ELSE b * Power(b, n - 1)

\* the radix encryption of a message: block i holds digit i in base
\* message_modulus
RadixEncrypt(p, message) ==
    [i \in 1 .. NumBlocks |->
        Encrypt(p, "KeyswitchBootstrap",
                (message \div Power(p.message_modulus, i - 1)) % p.message_modulus, 0)]

\* unchecked_add_assign of the shortint server key: the ciphertexts and
\* the degrees are added
UncheckedAddAssign(left, right) ==
    [left EXCEPT !.ct = Lwe(left.ct.key, Wrap(left.ct.phase + right.ct.phase)),
                 !.degree = left.degree + right.degree]

\* unchecked_add of two radix ciphertexts: block by block
RadixUncheckedAdd(ct1, ct2) ==
    [i \in 1 .. NumBlocks |-> UncheckedAddAssign(ct1[i], ct2[i])]

CarryExtractTables ==
    [p \in RadixParamSets |->
        Evaluated(GenerateAccumulator(p,
            [x \in 0 .. (ModulusSup(p) - 1) |-> x \div p.message_modulus]))]

MessageExtractTables ==
    [p \in RadixParamSets |->
        Evaluated(GenerateAccumulator(p,
            [x \in 0 .. (ModulusSup(p) - 1) |-> x % p.message_modulus]))]

\* carry_extract and message_extract: one bootstrap each
CarryExtract(p, ct, e) == ApplyLookupTable(p, ct, CarryExtractTables[p], e)
MessageExtract(p, ct, e) == ApplyLookupTable(p, ct, MessageExtractTables[p], e)

\* propagate_parallelized without the early return
PropagateParallelizedUnconditional(p, ctxt, index, e_carry, e_message) ==
    LET is_last_block == index = Len(ctxt) - 1
        block == ctxt[index + 1]
        carry == CarryExtract(p, block, e_carry)
        message == MessageExtract(p, block, e_message)
    IN IF ~is_last_block
       THEN [ctxt EXCEPT ![index + 1] = UncheckedAddAssign(message, carry)]
       ELSE [ctxt EXCEPT ![index + 1] = message]

\* propagate_parallelized(ctxt, index), index counted from 0
PropagateParallelized(p, ctxt, index, e_carry, e_message) ==
    LET is_last_block == index = Len(ctxt) - 1
        block == ctxt[index + 1]
    IN IF CarryIsEmpty(block)
       THEN ctxt
       ELSE LET carry == CarryExtract(p, block, e_carry)
                message == MessageExtract(p, block, e_message)
            IN IF ~is_last_block
               THEN [ctxt EXCEPT ![index + 1] = UncheckedAddAssign(message, carry)]
               ELSE [ctxt EXCEPT ![index + 1] = message]

\* full_propagate_parallelized: for i in 0..len
RECURSIVE FullPropagateFrom(_, _, _, _, _)
FullPropagateFrom(p, ctxt, i, e_carry, e_message) ==
    IF i >= Len(ctxt)
    THEN ctxt
    ELSE FullPropagateFrom(p, PropagateParallelized(p, ctxt, i, e_carry, e_message),
                           i + 1, e_carry, e_message)

FullPropagateParallelized(p, ctxt, e_carry, e_message) ==
    FullPropagateFrom(p, ctxt, 0, e_carry, e_message)

InitRadix ==
    /\ params \in RadixParamSets
    /\ \/ \E msg1 \in RadixMessages, msg2 \in RadixMessages :
             /\ blocks = RadixUncheckedAdd(RadixEncrypt(params, msg1),
                                           RadixEncrypt(params, msg2))
             \* call.message and call.modulus keep the two messages,
             \* call.noise the number of additions
             /\ call = [NoCall EXCEPT !.message = msg1, !.modulus = msg2,
                                      !.noise = 1]
       \* or a fresh encryption, whose blocks have empty carries
       \/ \E msg1 \in RadixMessages :
             /\ blocks = RadixEncrypt(params, msg1)
             /\ call = [NoCall EXCEPT !.message = msg1]
    /\ memory = Unused
    /\ out_handle = Unused
    /\ slices = Unused
    /\ local_engine = Unused
    /\ threads = Unused
    /\ ct_left = NoCt
    /\ ct_right = NoCt
    /\ ct_res = NoCt

\* one call on the ciphertext; call.left0 and
\* call.right0 keep the block at index and the next one as they were before
RadixPropagate ==
    /\ call.op = "none"
    /\ \E index \in 0 .. (NumBlocks - 1), e_carry \in NoiseSet, e_message \in NoiseSet :
          /\ blocks' = PropagateParallelized(params, blocks, index, e_carry, e_message)
          /\ call' = [Call("propagate_parallelized", index, 0, 0) EXCEPT
                        !.left0 = blocks[index + 1],
                        !.right0 = IF index + 1 < NumBlocks
                                   THEN blocks[index + 2] ELSE NoCt]
          /\ UNCHANGED <<params, ct_left, ct_right, ct_res, memory, out_handle, slices,
                         local_engine, threads>>

RadixFullPropagate ==
    /\ call.op = "none"
    /\ \E e_carry \in NoiseSet, e_message \in NoiseSet :
          /\ blocks' = FullPropagateParallelized(params, blocks, e_carry, e_message)
          /\ call' = [call EXCEPT !.op = "full_propagate_parallelized"]
          /\ UNCHANGED <<params, ct_left, ct_right, ct_res, memory, out_handle, slices,
                         local_engine, threads>>

NextRadix ==
    \/ RadixPropagate
    \/ RadixFullPropagate

SpecRadix == InitRadix /\ [][NextRadix]_vars

\* propagate_parallelized was called on a block with a carry that is not the
\* last block
PropagateCase ==
    /\ call.op = "propagate_parallelized"
    /\ call.message < NumBlocks - 1
    /\ ~CarryIsEmpty(call.left0)

\* C10: after propagate_parallelized(ctxt, i) on a block i that has a carry
\* and is not the last, block i encodes its old value mod message_modulus
\* and block i+1 encodes its old value plus the old value of block i div
\* message_modulus.
C10_CarryMovesToNextBlock ==
    PropagateCase =>
        /\ DecryptMessageAndCarry(params, blocks[call.message + 1])
             = DecryptMessageAndCarry(params, call.left0) % params.message_modulus
        /\ DecryptMessageAndCarry(params, blocks[call.message + 2])
             = DecryptMessageAndCarry(params, call.right0)
               + (DecryptMessageAndCarry(params, call.left0)
                    \div params.message_modulus)

\* the decryption of a radix ciphertext: the blocks' messages and carries,
\* block i weighted by message_modulus^i, modulo message_modulus^n
RECURSIVE RadixSum(_, _, _)
RadixSum(p, ctxt, i) ==
    IF i > Len(ctxt)
    THEN 0
    ELSE DecryptMessageAndCarry(p, ctxt[i]) * Power(p.message_modulus, i - 1)
           + RadixSum(p, ctxt, i + 1)

RadixDecrypt(p, ctxt) == RadixSum(p, ctxt, 1) % Power(p.message_modulus, Len(ctxt))

\* C11: after unchecked_add of two fresh radix encryptions of a and b and
\* full_propagate_parallelized, the ciphertext decrypts to
\* (a + b) mod message_modulus^n.
C11_FullPropagatePreservesValue ==
    (call.op = "full_propagate_parallelized" /\ call.noise = 1) =>
        RadixDecrypt(params, blocks)
            = (call.message + call.modulus) % Power(params.message_modulus, NumBlocks)

(***************************************************************************)
(* The smart bitwise operations (specification SpecSmart): each clears the *)
(* carries of both ciphertexts in place when the pair does not fit the     *)
(* bivariate bootstrap, then runs the unchecked operation.  A smart        *)
(* operation that returns its result may be called a second time on the    *)
(* ciphertexts as the first call left them.                                *)
(***************************************************************************)
\* the engine's smart operation, `unchecked` being its unchecked operation
EngineSmart(p, left, right, function, e1, e2, e3) ==
    LET fits == IsFunctionalBivariatePbsPossible(p, left, right)
        cleared_left == IF fits THEN left ELSE ClearCarry(p, left, e1)
        cleared_right == IF fits THEN right ELSE ClearCarry(p, right, e2)
    IN [left |-> cleared_left, right |-> cleared_right,
        res |-> UncheckedEvaluateBivariateFunction(p, cleared_left, cleared_right,
                                                   function, e3),
        ok |-> TRUE]

\* the engine's smart assign operation: the result is stored in ct_left
EngineSmartAssign(p, left, right, function, e1, e2, e3) ==
    LET out == EngineSmart(p, left, right, function, e1, e2, e3)
    IN [left |-> out.res, right |-> out.right, res |-> NoCt, ok |-> TRUE]

\* smart_bitand
SmartBitand(p, left, right, e1, e2, e3) ==
    EngineSmart(p, left, right, "bitand", e1, e2, e3)

\* smart_bitand_assign
SmartBitandAssign(p, left, right, e1, e2, e3) ==
    EngineSmartAssign(p, left, right, "bitand", e1, e2, e3)

\* smart_bitxor storing its result in ct_left as well
SmartBitxorInPlace(p, left, right, e1, e2, e3) ==
    LET out == EngineSmart(p, left, right, "bitxor", e1, e2, e3)
    IN [out EXCEPT !.left = out.res]

\* smart_bitxor
SmartBitxor(p, left, right, e1, e2, e3) ==
    EngineSmart(p, left, right, "bitxor", e1, e2, e3)

\* smart_bitxor_assign
SmartBitxorAssign(p, left, right, e1, e2, e3) ==
    EngineSmartAssign(p, left, right, "bitxor", e1, e2, e3)

\* smart_bitor
SmartBitor(p, left, right, e1, e2, e3) ==
    EngineSmart(p, left, right, "bitor", e1, e2, e3)

\* smart_bitor_assign
SmartBitorAssign(p, left, right, e1, e2, e3) ==
    EngineSmartAssign(p, left, right, "bitor", e1, e2, e3)

\* the ciphertexts handed to the smart operations: as encrypt makes them
\* (degree message_modulus - 1) or with a full carry (as unchecked_encrypt)
SmartCiphertexts(p) ==
    { ct \in InputCiphertexts(p, {0}) :
        ct.degree \in {p.message_modulus - 1, ModulusSup(p) - 1} }

InitSmart ==
    /\ params \in ServerParamSets
    /\ ct_left \in SmartCiphertexts(params)
    /\ ct_right \in SmartCiphertexts(params)
    /\ ct_res = NoCt
    /\ call = NoCall
    /\ blocks = <<>>
    /\ memory = Unused
    /\ out_handle = Unused
    /\ slices = Unused
    /\ local_engine = Unused
    /\ threads = Unused

\* the noise of the bootstraps that clear the carries: drawn when they run
SmartClearNoise ==
    IF IsFunctionalBivariatePbsPossible(params, ct_left, ct_right)
    THEN {0} ELSE NoiseSet

\* the state after call number 1 or 2 of a smart operation that returned
\* `out`: call.message counts the calls, call.out and call.out_mc keep what
\* the results of call 1 and call 2 decrypt to
SmartReturned(op, out, repeats) ==
    /\ \/ call.op = "none"
       \/ repeats /\ call.op = op /\ call.message = 1
    /\ ct_left' = out.left
    /\ ct_right' = out.right
    /\ ct_res' = out.res
    /\ call' = IF call.op = "none"
               THEN [Call(op, 1, 0, 0) EXCEPT
                       !.out = Decrypt(params, IF repeats THEN out.res ELSE out.left),
                       !.ok = out.ok,
                       !.left0 = ct_left,
                       !.right0 = ct_right]
               ELSE [call EXCEPT !.message = 2,
                                 !.out_mc = Decrypt(params, out.res),
                                 !.ok = call.ok /\ out.ok]
    /\ UNCHANGED <<params, blocks, memory, out_handle, slices,
                   local_engine, threads>>

ServerSmartBitand ==
    \E e1 \in SmartClearNoise, e2 \in SmartClearNoise, e3 \in NoiseSet :
        SmartReturned("smart_bitand",
                      SmartBitand(params, ct_left, ct_right, e1, e2, e3), TRUE)

ServerSmartBitandAssign ==
    \E e1 \in SmartClearNoise, e2 \in SmartClearNoise, e3 \in NoiseSet :
        SmartReturned("smart_bitand_assign",
                      SmartBitandAssign(params, ct_left, ct_right, e1, e2, e3), FALSE)

ServerSmartBitxor ==
    \E e1 \in SmartClearNoise, e2 \in SmartClearNoise, e3 \in NoiseSet :
        SmartReturned("smart_bitxor",
                      SmartBitxor(params, ct_left, ct_right, e1, e2, e3), TRUE)

ServerSmartBitxorAssign ==
    \E e1 \in SmartClearNoise, e2 \in SmartClearNoise, e3 \in NoiseSet :
        SmartReturned("smart_bitxor_assign",
                      SmartBitxorAssign(params, ct_left, ct_right, e1, e2, e3), FALSE)

ServerSmartBitor ==
    \E e1 \in SmartClearNoise, e2 \in SmartClearNoise, e3 \in NoiseSet :
        SmartReturned("smart_bitor",
                      SmartBitor(params, ct_left, ct_right, e1, e2, e3), TRUE)

ServerSmartBitorAssign ==
    \E e1 \in SmartClearNoise, e2 \in SmartClearNoise, e3 \in NoiseSet :
        SmartReturned("smart_bitor_assign",
                      SmartBitorAssign(params, ct_left, ct_right, e1, e2, e3), FALSE)

NextSmart ==
    \/ ServerSmartBitand
    \/ ServerSmartBitandAssign
    \/ ServerSmartBitxor
    \/ ServerSmartBitxorAssign
    \/ ServerSmartBitor
    \/ ServerSmartBitorAssign

SpecSmart == InitSmart /\ [][NextSmart]_vars

\* a smart operation was applied twice to the same pair
SmartTwiceCase ==
    /\ call.op \in {"smart_bitand", "smart_bitxor", "smart_bitor"}
    /\ call.message = 2

\* C12: smart-op idempotence: a smart operation applied a second time to
\* the pair, as the first call left it, succeeds like the first and its result
\* decrypts to the same plaintext.
C12_SmartIdempotence ==
    SmartTwiceCase => (call.ok /\ call.out_mc = call.out)

\* the second call found the carries the first one had cleared in place
C12_Witness ==
    /\ SmartTwiceCase
    /\ call.op = "smart_bitxor"
    /\ params.message_modulus = 4
    /\ params.carry_modulus = 4
    /\ call.left0.degree = 15
    /\ DecryptMessageAndCarry(params, call.left0) = 15
    /\ ct_left.degree = 3
    /\ call.out = 0
    /\ call.out_mc = 0
    /\ DecryptMessageAndCarry(params, call.right0) = 3

(***************************************************************************)
(* The accumulators of the engine (specification SpecAccumulator): the     *)
(* constructors generate_accumulator_with_engine and                       *)
(* generate_accumulator_bivariate_with_engine build a table in a fresh     *)
(* GLWE ciphertext, get_carry_clearing_accumulator_and_buffers builds the  *)
(* carry-clearing table in the engine's own buffers, over whatever they    *)
(* held.  memory.buffer is what the buffers hold, memory.table the table   *)
(* the last call returned, memory.f, memory.f2 and memory.scaling its      *)
(* arguments.                                                              *)
(***************************************************************************)
\* server_key.max_degree
MaxDegree(p) == ModulusSup(p) - 1

\* Memory::as_buffers: the accumulator is a view of the buffer, its degree
\* the placeholder max_degree
AsBuffers(buffer, p) == LookupTable(buffer, MaxDegree(p))

\* what the buffers may hold before a call: zeroes (a new engine) or the
\* coefficients an earlier computation left
BufferContents(p) ==
    { [mask |-> [j \in Coefficients(p) |-> Wrap(seed * (j + 1))],
       body |-> [j \in Coefficients(p) |-> Wrap(seed * (2 * j + 3))]] :
        seed \in 0 .. MaxBufferSeed }

\* the functions handed to generate_accumulator
UnivariateFunctions(p) ==
    { [x \in 0 .. (ModulusSup(p) - 1) |-> (a * x + b) % m] :
        a \in 0 .. MaxCoefficient, b \in 0 .. MaxCoefficient,
        m \in {p.message_modulus, ModulusSup(p)} }
    \cup { [x \in 0 .. (ModulusSup(p) - 1) |-> x \div p.message_modulus] }

\* the functions handed to generate_accumulator_bivariate
BivariateFunctions(p) ==
    { BivariateFunction(p, function) : function \in {"bitand", "bitxor", "bitor"} }
    \cup { [x \in Values(p) |-> [y \in Values(p) |->
               (a * x + b * y) % p.message_modulus]] :
            a \in 0 .. MaxCoefficient, b \in 0 .. MaxCoefficient }

NoTable == [acc |-> <<>>, degree |-> 0, ct_right_modulus |-> 0]

InitAccumulator ==
    /\ params \in ClientParamSets
    /\ \E buffer \in BufferContents(params) :
          memory = [op |-> "none", buffer |-> buffer, table |-> NoTable,
                    f |-> <<>>, f2 |-> <<>>, scaling |-> 0]
    /\ ct_left = NoCt
    /\ ct_right = NoCt
    /\ ct_res = NoCt
    /\ call = NoCall
    /\ blocks = <<>>
    /\ out_handle = Unused
    /\ slices = Unused
    /\ local_engine = Unused
    /\ threads = Unused

EngineGenerateAccumulator ==
    /\ memory.op = "none"
    /\ \E f \in UnivariateFunctions(params) :
          LET table == GenerateAccumulator(params, f)
          IN memory' = [memory EXCEPT
                          !.op = "generate_accumulator",
                          !.f = f,
                          !.table = [acc |-> table.acc, degree |-> table.degree,
                                     ct_right_modulus |-> 0]]
    /\ UNCHANGED <<params, ct_left, ct_right, ct_res, call, blocks,
                   out_handle, slices, local_engine, threads>>

EngineGenerateAccumulatorBivariate ==
    /\ memory.op = "none"
    /\ \E f2 \in BivariateFunctions(params), left_message_scaling \in MessageModuli :
          LET table == GenerateAccumulatorBivariate(params, f2, left_message_scaling)
          IN memory' = [memory EXCEPT
                          !.op = "generate_accumulator_bivariate",
                          !.f2 = f2,
                          !.scaling = left_message_scaling,
                          !.table = [acc |-> table.acc.acc,
                                     degree |-> table.acc.degree,
                                     ct_right_modulus |-> table.ct_right_modulus]]
    /\ UNCHANGED <<params, ct_left, ct_right, ct_res, call, blocks,
                   out_handle, slices, local_engine, threads>>

\* the table is built in the buffers, which keep it
EngineGetCarryClearingAccumulatorAndBuffers ==
    /\ memory.op = "none"
    /\ LET buffers == AsBuffers(memory.buffer, params)
           table == CarryClearingAccumulator(buffers.acc, params)
       IN memory' = [memory EXCEPT
                       !.op = "get_carry_clearing_accumulator_and_buffers",
                       !.buffer = table.acc,
                       !.table = [acc |-> table.acc, degree |-> table.degree,
                                  ct_right_modulus |-> 0]]
    /\ UNCHANGED <<params, ct_left, ct_right, ct_res, call, blocks,
                   out_handle, slices, local_engine, threads>>

NextAccumulator ==
    \/ EngineGenerateAccumulator
    \/ EngineGenerateAccumulatorBivariate
    \/ EngineGetCarryClearingAccumulatorAndBuffers

SpecAccumulator == InitAccumulator /\ [][NextAccumulator]_vars

\* the size of a box of the accumulator
BoxSize(p) == p.polynomial_size \div ModulusSup(p)

\* the body of table is the step function of f: f((j + box_size/2) div
\* box_size) * delta, and -f(0) * delta in the last box_size/2 coefficients
IsStepFunction(p, table, f) ==
    \A j \in Coefficients(p) :
        table.acc.body[j]
          = IF j < p.polynomial_size - (BoxSize(p) \div 2)
            THEN Wrap(f[(j + (BoxSize(p) \div 2)) \div BoxSize(p)] * Delta(p))
            ELSE WrappingNeg(Wrap(f[0] * Delta(p)))

\* a bootstrap with table maps the encoding of every m to that of f(m)
LooksUp(p, table, f) ==
    \A m \in 0 .. (ModulusSup(p) - 1) :
        BlindRotateAndExtract(p, table.acc, m * Delta(p)) = Wrap(f[m] * Delta(p))

\* C13: accumulator correctness: after fill_accumulator for a function f,
\* with the polynomial size a multiple of message_modulus * carry_modulus,
\* the mask is zero, the body is the step function of f, and a lookup at
\* the encoding of m returns f(m) * delta for every m.
C13_AccumulatorIsStepFunction ==
    (memory.op = "generate_accumulator"
        /\ params.polynomial_size % ModulusSup(params) = 0) =>
        /\ \A j \in Coefficients(params) : memory.table.acc.mask[j] = 0
        /\ IsStepFunction(params, memory.table, memory.f)
        /\ LooksUp(params, memory.table, memory.f)

\* a table of boxes of several coefficients, of a function that is not constant
C13_Witness ==
    /\ memory.op = "generate_accumulator"
    /\ BoxSize(params) = 2
    /\ params.message_modulus = 4
    /\ params.carry_modulus = 2
    /\ memory.f[5] = 3
    /\ memory.f[0] = 2
    /\ memory.table.acc.body[params.polynomial_size - 1]
         = WrappingNeg(2 * Delta(params))
    /\ memory.table.acc.body[9] = 3 * Delta(params)

\* C14: after get_carry_clearing_accumulator_and_buffers, whatever the
\* buffers held, the accumulator encodes n mod message_modulus and its
\* degree is message_modulus - 1, so that a bootstrap with it maps every m
\* below message_modulus * carry_modulus to m mod message_modulus.
C14_CarryClearingAccumulator ==
    memory.op = "get_carry_clearing_accumulator_and_buffers" =>
        LET f == [n \in 0 .. (ModulusSup(params) - 1) |-> n % params.message_modulus]
        IN /\ memory.table.degree = params.message_modulus - 1
           /\ \A j \in Coefficients(params) : memory.table.acc.mask[j] = 0
           /\ IsStepFunction(params, memory.table, f)
           /\ LooksUp(params, memory.table, f)

\* the buffers held something else and the placeholder degree was larger
C14_Witness ==
    /\ memory.op = "get_carry_clearing_accumulator_and_buffers"
    /\ params.message_modulus = 4
    /\ params.carry_modulus = 4
    /\ memory.table.degree = 3
    /\ MaxDegree(params) = 15
    /\ memory.table.acc.body[10] = Delta(params)
    /\ memory.buffer = memory.table.acc

\* the entry of a table for an input: the coefficient in the middle of its box
Entry(p, table, input) ==
    table.acc.body[input * BoxSize(p)]

\* C15: the bivariate accumulator built from f with scaling s stores, for
\* every input below message_modulus * carry_modulus,
\* f((input div s) mod M, (input mod s) mod M), and records
\* ct_right_modulus = s.
C15_BivariatePacking ==
    (memory.op = "generate_accumulator_bivariate"
        /\ params.polynomial_size % ModulusSup(params) = 0) =>
        /\ memory.table.ct_right_modulus = memory.scaling
        /\ \A input \in 0 .. (ModulusSup(params) - 1) :
              Entry(params, memory.table, input)
                = Wrap(memory.f2[(input \div memory.scaling) % params.message_modulus]
                                [(input % memory.scaling) % params.message_modulus]
                         * Delta(params))

\* scaling message_modulus: the entry at lhs * M + rhs is f(lhs, rhs)
C15_Witness ==
    /\ memory.op = "generate_accumulator_bivariate"
    /\ params.message_modulus = 4
    /\ params.carry_modulus = 4
    /\ memory.scaling = 4
    /\ memory.f2[3][1] = 3
    /\ memory.f2[1][3] = 1
    /\ Entry(params, memory.table, 3 * 4 + 1) = 3 * Delta(params)
    /\ memory.table.ct_right_modulus = 4

(***************************************************************************)
(* The C API (specification SpecCApi): shortints_deserialize_ciphertext    *)
(* and boolean_deserialize_ciphertext, called with a view of some bytes    *)
(* and a pointer `result` to the caller's handle.  out_handle.result is    *)
(* the pointer, out_handle.handle what the caller's handle holds (when the *)
(* pointer is valid), out_handle.before what it held before the call,      *)
(* out_handle.ret the code returned.                                       *)
(***************************************************************************)
\* a handle is a pointer: null, or the address of what it points to
Null == [null |-> TRUE, boxed |-> <<>>]

\* what the caller's handle held before the call, when it was not null
Uninitialized == [null |-> FALSE, boxed |-> <<>>]

\* the bytes a buffer view shows
RECURSIVE BytesOfLength(_)
BytesOfLength(n) ==
    IF n = 0 THEN { <<>> }
    ELSE { Append(b, x) : b \in BytesOfLength(n - 1), x \in 0 .. MaxByte }

BufferViews == UNION { BytesOfLength(n) : n \in 0 .. MaxViewLen }

\* the tail of bytes from position i on
From(bytes, i) == SubSeq(bytes, i, Len(bytes))

\* a length-prefixed buffer of scalars: none when the bytes run out
DeserializeScalars(bytes) ==
    IF Len(bytes) = 0 \/ Len(bytes) < 1 + bytes[1]
    THEN [ok |-> FALSE, value |-> <<>>, rest |-> <<>>]
    ELSE [ok |-> TRUE, value |-> SubSeq(bytes, 2, 1 + bytes[1]),
          rest |-> From(bytes, 2 + bytes[1])]

\* bincode::deserialize of a shortint ciphertext: the LWE buffer, then the
\* degree, the message modulus and the carry modulus
DeserializeShortint(bytes) ==
    LET ct == DeserializeScalars(bytes)
    IN IF ct.ok /\ Len(ct.rest) >= 3
       THEN [ok |-> TRUE,
             value |-> [ct |-> ct.value, degree |-> ct.rest[1],
                        message_modulus |-> ct.rest[2],
                        carry_modulus |-> ct.rest[3]]]
       ELSE [ok |-> FALSE, value |-> <<>>]

\* bincode::deserialize of a boolean ciphertext: a variant index, then an
\* LWE buffer (Encrypted) or a bool (Trivial)
DeserializeBoolean(bytes) ==
    IF Len(bytes) = 0 THEN [ok |-> FALSE, value |-> <<>>]
    ELSE IF bytes[1] = 0
    THEN LET ct == DeserializeScalars(From(bytes, 2))
         IN IF ct.ok THEN [ok |-> TRUE, value |-> [encrypted |-> ct.value]]
            ELSE [ok |-> FALSE, value |-> <<>>]
    ELSE IF bytes[1] = 1 /\ Len(bytes) >= 2 /\ bytes[2] \in {0, 1}
    THEN [ok |-> TRUE, value |-> [trivial |-> bytes[2] = 1]]
    ELSE [ok |-> FALSE, value |-> <<>>]

\* catch_panic: 0 when the closure returned, 1 when it panicked
CatchPanic(closure) ==
    [ret |-> IF closure.panicked THEN 1 ELSE 0, handle |-> closure.handle]

\* Box::into_raw of a new box: a pointer that is not null
IntoRaw(value) == [null |-> FALSE, boxed |-> value]

\* shortints_deserialize_ciphertext storing the handle only on success
ShortintsDeserializeCiphertextUnfilled(buffer_view, result, handle) ==
    CatchPanic(
        IF result # "valid"
        THEN [panicked |-> TRUE, handle |-> handle]
        ELSE LET ciphertext == DeserializeShortint(buffer_view)
             IN IF ~ciphertext.ok
                THEN [panicked |-> TRUE, handle |-> handle]
                ELSE [panicked |-> FALSE, handle |-> IntoRaw(ciphertext.value)])

\* shortints_deserialize_ciphertext: `handle` is what *result held
ShortintsDeserializeCiphertext(buffer_view, result, handle) ==
    CatchPanic(
        \* check_ptr_is_non_null_and_aligned(result).unwrap()
        IF result # "valid"
        THEN [panicked |-> TRUE, handle |-> handle]
        ELSE \* *result = null, then bincode::deserialize(...).unwrap()
             LET ciphertext == DeserializeShortint(buffer_view)
             IN IF ~ciphertext.ok
                THEN [panicked |-> TRUE, handle |-> Null]
                ELSE [panicked |-> FALSE, handle |-> IntoRaw(ciphertext.value)])

\* boolean_deserialize_ciphertext
BooleanDeserializeCiphertext(buffer_view, result, handle) ==
    CatchPanic(
        IF result # "valid"
        THEN [panicked |-> TRUE, handle |-> handle]
        ELSE LET ciphertext == DeserializeBoolean(buffer_view)
             IN IF ~ciphertext.ok
                THEN [panicked |-> TRUE, handle |-> Null]
                ELSE [panicked |-> FALSE, handle |-> IntoRaw(ciphertext.value)])

InitCApi ==
    /\ out_handle \in [op : {"none"}, buffer_view : BufferViews,
                       result : {"valid", "null", "misaligned"},
                       handle : {Null, Uninitialized}, before : {Null},
                       ret : {0}]
    /\ params \in {Param(4, 4, 32)}
    /\ ct_left = NoCt
    /\ ct_right = NoCt
    /\ ct_res = NoCt
    /\ call = NoCall
    /\ blocks = <<>>
    /\ memory = Unused
    /\ slices = Unused
    /\ local_engine = Unused
    /\ threads = Unused

CApiShortintsDeserializeCiphertext ==
    /\ out_handle.op = "none"
    /\ LET out == ShortintsDeserializeCiphertext(out_handle.buffer_view,
                                                 out_handle.result, out_handle.handle)
       IN out_handle' = [out_handle EXCEPT
                           !.op = "shortints_deserialize_ciphertext",
                           !.before = out_handle.handle,
                           !.handle = out.handle, !.ret = out.ret]
    /\ UNCHANGED <<params, ct_left, ct_right, ct_res, call, blocks, memory, slices,
                   local_engine, threads>>

CApiBooleanDeserializeCiphertext ==
    /\ out_handle.op = "none"
    /\ LET out == BooleanDeserializeCiphertext(out_handle.buffer_view,
                                               out_handle.result, out_handle.handle)
       IN out_handle' = [out_handle EXCEPT
                           !.op = "boolean_deserialize_ciphertext",
                           !.before = out_handle.handle,
                           !.handle = out.handle, !.ret = out.ret]
    /\ UNCHANGED <<params, ct_left, ct_right, ct_res, call, blocks, memory, slices,
                   local_engine, threads>>

NextCApi ==
    \/ CApiShortintsDeserializeCiphertext
    \/ CApiBooleanDeserializeCiphertext

SpecCApi == InitCApi /\ [][NextCApi]_vars

\* the bytes handed to the call that was made are not a ciphertext
Malformed ==
    \/ /\ out_handle.op = "shortints_deserialize_ciphertext"
       /\ ~DeserializeShortint(out_handle.buffer_view).ok
    \/ /\ out_handle.op = "boolean_deserialize_ciphertext"
       /\ ~DeserializeBoolean(out_handle.buffer_view).ok

\* C17: called with a non-null, aligned out_handle pointer, a deserialize
\* entry point returns 0 exactly when the handle is not null afterwards,
\* and on malformed bytes it returns non-zero and the handle is null.
C17_ZeroIffHandleNonNull ==
    (out_handle.op # "none" /\ out_handle.result = "valid") =>
        /\ (out_handle.ret = 0) <=> ~out_handle.handle.null
        /\ Malformed => (out_handle.ret # 0 /\ out_handle.handle.null)

\* malformed bytes, and a handle that held something before the call
C17_Witness ==
    /\ out_handle.op = "shortints_deserialize_ciphertext"
    /\ out_handle.result = "valid"
    /\ out_handle.buffer_view = <<2, 1, 1>>
    /\ ~out_handle.before.null
    /\ out_handle.ret = 1
    /\ out_handle.handle.null

(***************************************************************************)
(* The slice kernels of core_crypto/algorithms/slice_algorithms.rs.        *)
(* A Scalar is an unsigned integer of ScalarBits bits; every wrapping_*    *)
(* operation is taken modulo 2^ScalarBits.  A kernel returns what its      *)
(* caller can observe: whether it panicked (aborted), what the slice it    *)
(* writes to holds afterwards (dest), and the value it returns (value).    *)
(***************************************************************************)
ScalarModulus == 2 ^ ScalarBits

Scalars == 0 .. (ScalarModulus - 1)

ScalarWrappingAdd(a, b) == (a + b) % ScalarModulus

ScalarWrappingSub(a, b) == (a - b) % ScalarModulus

ScalarWrappingMul(a, b) == (a * b) % ScalarModulus

ScalarWrappingNeg(a) == (0 - a) % ScalarModulus

ScalarWrappingRem(a, modulus) == a % modulus

Aborted(dest) == [aborted |-> TRUE, dest |-> dest, value |-> 0]

Written(dest) == [aborted |-> FALSE, dest |-> dest, value |-> 0]

Returns(value) == [aborted |-> FALSE, dest |-> <<>>, value |-> value]

\* lhs.iter().zip(rhs.iter()).fold(ZERO, |acc, (left, right)| step(acc, left, right))
RECURSIVE ZipFold(_, _, _, _)
ZipFold(lhs, rhs, n, modulus) ==
    IF n = 0 THEN 0
    ELSE LET acc == ZipFold(lhs, rhs, n - 1, modulus)
             product == ScalarWrappingMul(lhs[n], rhs[n])
         IN  IF modulus = 0
             THEN ScalarWrappingAdd(acc, product)
             ELSE ScalarWrappingRem(
                      ScalarWrappingAdd(acc, ScalarWrappingRem(product, modulus)),
                      modulus)

SliceWrappingDotProduct(lhs, rhs) ==
    IF Len(lhs) # Len(rhs) THEN Aborted(<<>>)
    ELSE Returns(ZipFold(lhs, rhs, Len(lhs), 0))

\* the native fold in place of the custom-modulus one: nothing is reduced
SliceWrappingDotProductCustomModulusUnreduced(lhs, rhs, modulus) ==
    IF Len(lhs) # Len(rhs) THEN Aborted(<<>>)
    ELSE Returns(ZipFold(lhs, rhs, Len(lhs), 0))

SliceWrappingDotProductCustomModulus(lhs, rhs, modulus) ==
    IF Len(lhs) # Len(rhs) THEN Aborted(<<>>)
    ELSE Returns(ZipFold(lhs, rhs, Len(lhs), modulus))

SliceWrappingAdd(output, lhs, rhs) ==
    IF Len(lhs) # Len(rhs) THEN Aborted(output)
    ELSE IF Len(output) # Len(lhs) THEN Aborted(output)
    ELSE Written([i \in 1 .. Len(output) |-> ScalarWrappingAdd(lhs[i], rhs[i])])

\* the same loop without the assertion: zip stops at the shorter slice
SliceWrappingAddAssignUnchecked(lhs, rhs) ==
    Written([i \in 1 .. Len(lhs) |->
                IF i <= Len(rhs) THEN ScalarWrappingAdd(lhs[i], rhs[i])
                ELSE lhs[i]])

SliceWrappingAddAssign(lhs, rhs) ==
    IF Len(lhs) # Len(rhs) THEN Aborted(lhs)
    ELSE Written([i \in 1 .. Len(lhs) |-> ScalarWrappingAdd(lhs[i], rhs[i])])

SliceWrappingAddScalarMulAssign(lhs, rhs, scalar) ==
    IF Len(lhs) # Len(rhs) THEN Aborted(lhs)
    ELSE Written([i \in 1 .. Len(lhs) |->
                     ScalarWrappingAdd(lhs[i], ScalarWrappingMul(rhs[i], scalar))])

SliceWrappingSub(output, lhs, rhs) ==
    IF Len(lhs) # Len(rhs) THEN Aborted(output)
    ELSE IF Len(output) # Len(lhs) THEN Aborted(output)
    ELSE Written([i \in 1 .. Len(output) |-> ScalarWrappingSub(lhs[i], rhs[i])])

SliceWrappingSubAssign(lhs, rhs) ==
    IF Len(lhs) # Len(rhs) THEN Aborted(lhs)
    ELSE Written([i \in 1 .. Len(lhs) |-> ScalarWrappingSub(lhs[i], rhs[i])])

SliceWrappingSubScalarMulAssign(lhs, rhs, scalar) ==
    IF Len(lhs) # Len(rhs) THEN Aborted(lhs)
    ELSE Written([i \in 1 .. Len(lhs) |->
                     ScalarWrappingSub(lhs[i], ScalarWrappingMul(rhs[i], scalar))])

SliceWrappingSubScalarMulAssignCustomModulus(lhs, rhs, scalar, modulus) ==
    IF Len(lhs) # Len(rhs) THEN Aborted(lhs)
    ELSE Written([i \in 1 .. Len(lhs) |->
                     ScalarWrappingRem(
                         ScalarWrappingSub(
                             lhs[i],
                             ScalarWrappingRem(ScalarWrappingMul(rhs[i], scalar),
                                               modulus)),
                         modulus)])

SliceWrappingOppositeAssignNativeMod(slice) ==
    Written([i \in 1 .. Len(slice) |-> ScalarWrappingNeg(slice[i])])

SliceWrappingOppositeAssignCustomMod(slice, modulus) ==
    LET half_q == modulus \div 2
    IN  Written([i \in 1 .. Len(slice) |->
                    ScalarWrappingSub(
                        ScalarWrappingAdd(half_q, 1),
                        ScalarWrappingSub(slice[i], ScalarWrappingAdd(half_q, 1)))])

SliceWrappingScalarMulAssign(lhs, rhs) ==
    Written([i \in 1 .. Len(lhs) |-> ScalarWrappingMul(lhs[i], rhs)])

SliceWrappingRemAssign(slice, modulus) ==
    Written([i \in 1 .. Len(slice) |-> ScalarWrappingRem(slice[i], modulus)])

(***************************************************************************)
(* The callers of the kernels.  The slices handed over are runs            *)
(* first, first + 1, ... of up to MaxLen scalars, as in the doc examples,  *)
(* the output of add and sub is a zeroed buffer (vec![0; n]), and a custom *)
(* modulus is any q with 2 <= q < 2^ScalarBits.  slices records the        *)
(* arguments of the one call made and what the kernel returned.            *)
(***************************************************************************)
Run(first, n) == [i \in 1 .. n |-> (first + i - 1) % ScalarModulus]

Slices == { Run(first, n) : first \in Scalars, n \in 0 .. MaxLen }

Outputs == { [i \in 1 .. n |-> 0] : n \in 0 .. MaxLen }

Moduli == 2 .. (ScalarModulus - 1)

NoSliceCall ==
    [op |-> "none", output |-> <<>>, lhs |-> <<>>, rhs |-> <<>>, scalar |-> 0,
     modulus |-> 0, aborted |-> FALSE, dest |-> <<>>, value |-> 0]

InitSlices ==
    /\ params = Param(2, 2, 8)
    /\ ct_left = NoCt
    /\ ct_right = NoCt
    /\ ct_res = NoCt
    /\ call = NoCall
    /\ blocks = Unused
    /\ memory = Unused
    /\ out_handle = Unused
    /\ slices = NoSliceCall
    /\ local_engine = Unused
    /\ threads = Unused

SliceCalled(op, output, lhs, rhs, scalar, modulus, out) ==
    /\ slices' = [op |-> op, output |-> output, lhs |-> lhs, rhs |-> rhs,
                  scalar |-> scalar, modulus |-> modulus,
                  aborted |-> out.aborted, dest |-> out.dest, value |-> out.value]
    /\ UNCHANGED <<params, ct_left, ct_right, ct_res, call, blocks, memory,
                   out_handle, local_engine, threads>>

CallDotProduct ==
    /\ slices.op = "none"
    /\ \E lhs \in Slices, rhs \in Slices :
           SliceCalled("dot_product", <<>>, lhs, rhs, 0, 0,
                       SliceWrappingDotProduct(lhs, rhs))

CallDotProductCustomModulus ==
    /\ slices.op = "none"
    /\ \E lhs \in Slices, rhs \in Slices, modulus \in Moduli :
           SliceCalled("dot_product_custom_modulus", <<>>, lhs, rhs, 0, modulus,
                       SliceWrappingDotProductCustomModulus(lhs, rhs, modulus))

CallAdd ==
    /\ slices.op = "none"
    /\ \E output \in Outputs, lhs \in Slices, rhs \in Slices :
           SliceCalled("add", output, lhs, rhs, 0, 0,
                       SliceWrappingAdd(output, lhs, rhs))

CallAddAssign ==
    /\ slices.op = "none"
    /\ \E lhs \in Slices, rhs \in Slices :
           SliceCalled("add_assign", <<>>, lhs, rhs, 0, 0,
                       SliceWrappingAddAssign(lhs, rhs))

CallAddScalarMulAssign ==
    /\ slices.op = "none"
    /\ \E lhs \in Slices, rhs \in Slices, scalar \in Scalars :
           SliceCalled("add_scalar_mul_assign", <<>>, lhs, rhs, scalar, 0,
                       SliceWrappingAddScalarMulAssign(lhs, rhs, scalar))

CallSub ==
    /\ slices.op = "none"
    /\ \E output \in Outputs, lhs \in Slices, rhs \in Slices :
           SliceCalled("sub", output, lhs, rhs, 0, 0,
                       SliceWrappingSub(output, lhs, rhs))

CallSubAssign ==
    /\ slices.op = "none"
    /\ \E lhs \in Slices, rhs \in Slices :
           SliceCalled("sub_assign", <<>>, lhs, rhs, 0, 0,
                       SliceWrappingSubAssign(lhs, rhs))

CallSubScalarMulAssign ==
    /\ slices.op = "none"
    /\ \E lhs \in Slices, rhs \in Slices, scalar \in Scalars :
           SliceCalled("sub_scalar_mul_assign", <<>>, lhs, rhs, scalar, 0,
                       SliceWrappingSubScalarMulAssign(lhs, rhs, scalar))

CallSubScalarMulAssignCustomModulus ==
    /\ slices.op = "none"
    /\ \E lhs \in Slices, rhs \in Slices, scalar \in Scalars, modulus \in Moduli :
           SliceCalled("sub_scalar_mul_assign_custom_modulus", <<>>, lhs, rhs,
                       scalar, modulus,
                       SliceWrappingSubScalarMulAssignCustomModulus(
                           lhs, rhs, scalar, modulus))

CallOppositeAssignNativeMod ==
    /\ slices.op = "none"
    /\ \E slice \in Slices :
           SliceCalled("opposite_assign_native_mod", <<>>, slice, <<>>, 0, 0,
                       SliceWrappingOppositeAssignNativeMod(slice))

CallOppositeAssignCustomMod ==
    /\ slices.op = "none"
    /\ \E slice \in Slices, modulus \in Moduli :
           SliceCalled("opposite_assign_custom_mod", <<>>, slice, <<>>, 0, modulus,
                       SliceWrappingOppositeAssignCustomMod(slice, modulus))

CallScalarMulAssign ==
    /\ slices.op = "none"
    /\ \E lhs \in Slices, rhs \in Scalars :
           SliceCalled("scalar_mul_assign", <<>>, lhs, <<>>, rhs, 0,
                       SliceWrappingScalarMulAssign(lhs, rhs))

CallRemAssign ==
    /\ slices.op = "none"
    /\ \E slice \in Slices, modulus \in Moduli :
           SliceCalled("rem_assign", <<>>, slice, <<>>, 0, modulus,
                       SliceWrappingRemAssign(slice, modulus))

NextSlices ==
    \/ CallDotProduct
    \/ CallDotProductCustomModulus
    \/ CallAdd
    \/ CallAddAssign
    \/ CallAddScalarMulAssign
    \/ CallSub
    \/ CallSubAssign
    \/ CallSubScalarMulAssign
    \/ CallSubScalarMulAssignCustomModulus
    \/ CallOppositeAssignNativeMod
    \/ CallOppositeAssignCustomMod
    \/ CallScalarMulAssign
    \/ CallRemAssign

SpecSlices == InitSlices /\ [][NextSlices]_vars

(***************************************************************************)
(* C18  Every two-slice kernel (dot_product, add, add_assign,              *)
(* add_scalar_mul_assign, sub, sub_assign, sub_scalar_mul_assign and the   *)
(* custom-modulus versions) aborts when the lengths of its two slices      *)
(* differ, add and sub also when the length of the output differs, and     *)
(* the slice it writes to holds at the abort what it held before the call. *)
(***************************************************************************)
TwoSliceKernels ==
    { "dot_product", "dot_product_custom_modulus", "add", "add_assign",
      "add_scalar_mul_assign", "sub", "sub_assign", "sub_scalar_mul_assign",
      "sub_scalar_mul_assign_custom_modulus" }

WithOutput == { "add", "sub" }

Returning == { "dot_product", "dot_product_custom_modulus" }

\* the slice the kernel writes to, as it was handed over
Destination ==
    IF slices.op \in WithOutput THEN slices.output
    ELSE IF slices.op \in Returning THEN <<>>
    ELSE slices.lhs

LengthMismatch ==
    \/ Len(slices.lhs) # Len(slices.rhs)
    \/ slices.op \in WithOutput /\ Len(slices.output) # Len(slices.lhs)

C18_LengthMismatchAborts ==
    (slices.op \in TwoSliceKernels /\ LengthMismatch) =>
        /\ slices.aborted
        /\ slices.dest = Destination

C18_Witness ==
    /\ slices.op = "add_scalar_mul_assign"
    /\ slices.lhs = <<1, 2>>
    /\ slices.rhs = <<3>>
    /\ slices.scalar = 2
    /\ slices.aborted
    /\ slices.dest = <<1, 2>>

(***************************************************************************)
(* C19  slice_wrapping_opposite_assign_custom_mod is modular negation: for *)
(* every modulus q >= 2 and every element x in [0, q) the element becomes  *)
(* (q - x) mod q, so that old plus new is congruent to 0 modulo q and the  *)
(* new value lies in [0, q).                                               *)
(***************************************************************************)
Reduced(slice, modulus) == \A i \in 1 .. Len(slice) : slice[i] < modulus

C19_OppositeCustomModIsNegation ==
    (/\ slices.op = "opposite_assign_custom_mod"
     /\ Reduced(slices.lhs, slices.modulus)) =>
        \A i \in 1 .. Len(slices.lhs) :
            slices.dest[i] = (slices.modulus - slices.lhs[i]) % slices.modulus

(***************************************************************************)
(* C20  slice_wrapping_sub_scalar_mul_assign_custom_modulus computes       *)
(* a <- (a - b * c) mod q: for every modulus q < 2^w, power of two or not, *)
(* every scalar c and all a, b in [0, q) with b * c < 2^w, each a[i]       *)
(* becomes the residue of a[i] - b[i] * c modulo q, in [0, q).             *)
(***************************************************************************)
C20_SubScalarMulCustomModulus ==
    (/\ slices.op = "sub_scalar_mul_assign_custom_modulus"
     /\ ~slices.aborted
     /\ Reduced(slices.lhs, slices.modulus)
     /\ Reduced(slices.rhs, slices.modulus)
     /\ \A i \in 1 .. Len(slices.rhs) :
            slices.rhs[i] * slices.scalar < ScalarModulus) =>
        \A i \in 1 .. Len(slices.lhs) :
            slices.dest[i] =
                (slices.lhs[i] - slices.rhs[i] * slices.scalar) % slices.modulus

(***************************************************************************)
(* C21  slice_wrapping_dot_product_custom_modulus returns the exact value  *)
(* (sum over i of lhs[i] * rhs[i]) mod modulus, in [0, modulus), for       *)
(* slices of any equal length, whenever every operand and the modulus fit  *)
(* in half the scalar width (values cast from a w/2-bit type into w bits). *)
(***************************************************************************)
HalfWidth == 2 ^ (ScalarBits \div 2)

FitsHalfWidth(slice) == \A i \in 1 .. Len(slice) : slice[i] < HalfWidth

\* the sum of the products over the integers, nothing wrapping
RECURSIVE SumOfProducts(_, _, _)
SumOfProducts(lhs, rhs, n) ==
    IF n = 0 THEN 0
    ELSE SumOfProducts(lhs, rhs, n - 1) + lhs[n] * rhs[n]

DotProductCase ==
    /\ slices.op = "dot_product_custom_modulus"
    /\ ~slices.aborted
    /\ FitsHalfWidth(slices.lhs)
    /\ FitsHalfWidth(slices.rhs)
    /\ slices.modulus < HalfWidth

C21_DotProductCustomModulusExact ==
    DotProductCase =>
        /\ slices.value =
               SumOfProducts(slices.lhs, slices.rhs, Len(slices.lhs))
                   % slices.modulus
        /\ slices.value < slices.modulus

C21_Witness ==
    /\ DotProductCase
    /\ slices.lhs = <<2, 3>>
    /\ slices.rhs = <<2, 3>>
    /\ slices.modulus = 3
    /\ slices.value = 1

(***************************************************************************)
(* C22  Native CRT round trip: for every basis b, every message m and      *)
(* every noise e with |e| * b < 2^(w-1),                                   *)
(* decrypt_message_native_crt(encrypt_native_crt(m, b), b) = m mod b, and  *)
(* the ciphertext has message_modulus = b, carry_modulus = 1 and           *)
(* degree = b - 1.                                                         *)
(***************************************************************************)
NativeCrtCase ==
    /\ call.op = "encrypt_native_crt"
    /\ call.dec = "decrypt_message_native_crt"

NativeCrtRoundTrip ==
    /\ call.out = call.message % call.modulus
    /\ ct_res.message_modulus = call.modulus
    /\ ct_res.carry_modulus = 1
    /\ ct_res.degree = call.modulus - 1

C22_NativeCrtRoundTrip ==
    (NativeCrtCase /\ Abs(call.noise) * call.modulus < HalfTorus) =>
        NativeCrtRoundTrip

\* amended: the noise also leaves room for what the division by the basis
\* cuts off the encoding, |e| * b + (b - 1) <= 2^(w-1)
C22_NativeCrtRoundTripWithTruncation ==
    (/\ NativeCrtCase
     /\ Abs(call.noise) * call.modulus + (call.modulus - 1) <= HalfTorus) =>
        NativeCrtRoundTrip

C22_Witness ==
    /\ NativeCrtCase
    /\ call.modulus = 5
    /\ call.message = 4
    /\ call.noise < 0 - NoiseBound
    /\ Abs(call.noise) * call.modulus + (call.modulus - 1) <= HalfTorus
    /\ call.out = 4
    /\ ct_res.degree = 4

(***************************************************************************)
(* C23  unchecked_encrypt does not reduce its message: for every m in      *)
(* [0, message_modulus * carry_modulus) it returns a ciphertext with       *)
(* degree = message_modulus * carry_modulus - 1 and the parameters'        *)
(* message and carry moduli, for which decrypt_message_and_carry returns m *)
(* and decrypt returns m mod message_modulus.                              *)
(***************************************************************************)
UncheckedEncryptCase ==
    /\ call.op = "unchecked_encrypt"
    /\ call.dec = "decrypt"
    /\ call.message < ModulusSup(params)

UncheckedEncryptKeepsMessage ==
    /\ ct_res.degree = ModulusSup(params) - 1
    /\ ct_res.message_modulus = params.message_modulus
    /\ ct_res.carry_modulus = params.carry_modulus
    /\ call.out_mc = call.message
    /\ call.out = call.message % params.message_modulus

Threads == 1 .. MaxThreads

NoEngine == [created |-> FALSE, borrowed |-> FALSE, draws |-> 0, accessed_by |-> {}]

\* ShortintEngine::new(), run by thread t
NewEngine(t) == [created |-> TRUE, borrowed |-> FALSE, draws |-> 0, accessed_by |-> {t}]

\* a static shared by the whole process in place of thread_local!
LocalEngineOfProcess(t) == 1

\* LOCAL_ENGINE.with(..) on thread t: the slot the closure is handed
LocalEngine(t) == t

\* LOCAL_ENGINE.with(|engine_cell| ..): the slot's engine, created on first use
With(engines, t) ==
    LET slot == LocalEngine(t)
    IN  IF engines[slot].created
        THEN [engines EXCEPT ![slot].accessed_by = @ \cup {t}]
        ELSE [engines EXCEPT ![slot] = NewEngine(t)]

\* engine_cell.borrow_mut()
BorrowMut(engines, t) ==
    LET slot == LocalEngine(t)
    IN  IF engines[slot].borrowed
        THEN [panicked |-> TRUE, engines |-> engines]
        ELSE [panicked |-> FALSE,
              engines |-> [engines EXCEPT ![slot].borrowed = TRUE]]

\* func(&mut engine) returning with the RefMut leaked: the borrow stays
ReleaseWithoutDrop(engines, t) ==
    LET slot == LocalEngine(t)
    IN  [engines EXCEPT ![slot].draws = @ + 1,
                        ![slot].accessed_by = @ \cup {t}]

\* func(&mut engine) returning and the RefMut being dropped
Release(engines, t) ==
    LET slot == LocalEngine(t)
    IN  [engines EXCEPT ![slot].draws = @ + 1,
                        ![slot].accessed_by = @ \cup {t},
                        ![slot].borrowed = FALSE]

Idle == [pc |-> "idle", calls |-> 0]

InitThreads ==
    /\ params = Param(2, 2, 8)
    /\ ct_left = NoCt
    /\ ct_right = NoCt
    /\ ct_res = NoCt
    /\ call = NoCall
    /\ blocks = Unused
    /\ memory = Unused
    /\ out_handle = Unused
    /\ slices = Unused
    /\ local_engine = [t \in Threads |-> NoEngine]
    /\ threads = [t \in Threads |-> Idle]

\* thread t enters with_thread_local_mut for its next server-key operation
WithThreadLocalMutEnter(t) ==
    /\ threads[t].pc = "idle"
    /\ threads[t].calls < MaxOperations
    /\ LET borrow == BorrowMut(With(local_engine, t), t)
       IN  /\ local_engine' = borrow.engines
           /\ threads' = [threads EXCEPT
                  ![t].pc = IF borrow.panicked THEN "panicked" ELSE "in_engine",
                  ![t].calls = @ + 1]
    /\ UNCHANGED <<params, ct_left, ct_right, ct_res, call, blocks, memory,
                   out_handle, slices>>

\* the operation of thread t returns
WithThreadLocalMutReturn(t) ==
    /\ threads[t].pc = "in_engine"
    /\ local_engine' = Release(local_engine, t)
    /\ threads' = [threads EXCEPT ![t].pc = "idle"]
    /\ UNCHANGED <<params, ct_left, ct_right, ct_res, call, blocks, memory,
                   out_handle, slices>>

NextThreads ==
    \E t \in Threads :
        \/ WithThreadLocalMutEnter(t)
        \/ WithThreadLocalMutReturn(t)

SpecThreads == InitThreads /\ [][NextThreads]_vars

(***************************************************************************)
(* C24  Per-thread engine: under any interleaving of the server-key        *)
(* operations of several threads, each engine is created at its owning     *)
(* thread's first with_thread_local_mut call and is only ever accessed by  *)
(* that thread; no two threads read or write the same engine.              *)
(***************************************************************************)
C24_EngineOwnedByThread ==
    \A slot \in Threads :
        /\ local_engine[slot].accessed_by \subseteq {slot}
        /\ local_engine[slot].created <=> threads[slot].calls > 0
        /\ threads[slot].pc # "panicked"

C24_Witness ==
    /\ threads[1].pc = "in_engine"
    /\ threads[2].pc = "in_engine"
    /\ threads[2].calls = 2
    /\ threads[3].calls = 0
    /\ local_engine[1].accessed_by = {1}
    /\ local_engine[2].accessed_by = {2}
    /\ local_engine[2].draws = 1
    /\ ~local_engine[3].created

(***************************************************************************)
(* The scratch arena of an engine: Memory { buffer: Vec<u64> }, empty in   *)
(* a new engine.  as_buffers(server_key) resizes the buffer with zeroes    *)
(* when it is shorter than the key needs, and hands out the first          *)
(* total_elem_needed elements as three views: the accumulator, the buffer  *)
(* after the keyswitch and the buffer after the PBS.  A view is the pair   *)
(* of its first index and its length.                                      *)
(***************************************************************************)
\* the sizes as_buffers reads from a server key
ServerKeySize(glwe_size, polynomial_size, input_lwe_dimension) ==
    [glwe_size |-> glwe_size, polynomial_size |-> polynomial_size,
     output_lwe_size |-> input_lwe_dimension + 1,
     output_lwe_dimension |-> (glwe_size - 1) * polynomial_size]

ServerKeySizes ==
    { ServerKeySize(2, polynomial_size, input_lwe_dimension) :
        polynomial_size \in {2, 4, 8}, input_lwe_dimension \in {1, 3} }

TotalElemNeeded(server_key) ==
    LET num_elem_in_accumulator == server_key.glwe_size * server_key.polynomial_size
        num_elem_in_lwe_after_ks == server_key.output_lwe_size
        num_elem_in_lwe_after_pbs == server_key.output_lwe_dimension + 1
    IN  num_elem_in_accumulator + num_elem_in_lwe_after_ks
            + num_elem_in_lwe_after_pbs

\* Vec::resize(new_len, 0)
Resize(buffer, new_len) ==
    [i \in 1 .. new_len |-> IF i <= Len(buffer) THEN buffer[i] ELSE 0]

View(first, len) == [first |-> first, len |-> len]

\* as_buffers resizing the buffer at every call
MemoryAsBuffersResizing(buffer, server_key) ==
    LET num_elem_in_accumulator == server_key.glwe_size * server_key.polynomial_size
        num_elem_in_lwe_after_ks == server_key.output_lwe_size
        num_elem_in_lwe_after_pbs == server_key.output_lwe_dimension + 1
        total_elem_needed == TotalElemNeeded(server_key)
    IN  [buffer |-> Resize(buffer, total_elem_needed),
         accumulator |-> View(1, num_elem_in_accumulator),
         buffer_lwe_after_ks |->
             View(num_elem_in_accumulator + 1, num_elem_in_lwe_after_ks),
         buffer_lwe_after_pbs |->
             View(num_elem_in_accumulator + num_elem_in_lwe_after_ks + 1,
                  num_elem_in_lwe_after_pbs)]

MemoryAsBuffers(buffer, server_key) ==
    LET num_elem_in_accumulator == server_key.glwe_size * server_key.polynomial_size
        num_elem_in_lwe_after_ks == server_key.output_lwe_size
        num_elem_in_lwe_after_pbs == server_key.output_lwe_dimension + 1
        total_elem_needed == TotalElemNeeded(server_key)
    IN  [buffer |-> IF Len(buffer) < total_elem_needed
                    THEN Resize(buffer, total_elem_needed)
                    ELSE buffer,
         accumulator |-> View(1, num_elem_in_accumulator),
         buffer_lwe_after_ks |->
             View(num_elem_in_accumulator + 1, num_elem_in_lwe_after_ks),
         buffer_lwe_after_pbs |->
             View(num_elem_in_accumulator + num_elem_in_lwe_after_ks + 1,
                  num_elem_in_lwe_after_pbs)]

NoBuffers ==
    [buffer |-> <<>>, accumulator |-> View(1, 0),
     buffer_lwe_after_ks |-> View(1, 0), buffer_lwe_after_pbs |-> View(1, 0)]

\* memory.requested and memory.lengths keep, call after call, the
\* total_elem_needed of the key and the length of the buffer after the call
InitArena ==
    /\ params = Param(2, 2, 8)
    /\ ct_left = NoCt
    /\ ct_right = NoCt
    /\ ct_res = NoCt
    /\ call = NoCall
    /\ blocks = Unused
    /\ memory = [op |-> "none", buffer |-> <<>>, requested |-> <<>>,
                 lengths |-> <<>>, server_key |-> ServerKeySize(2, 2, 1),
                 buffers |-> NoBuffers]
    /\ out_handle = Unused
    /\ slices = Unused
    /\ local_engine = Unused
    /\ threads = Unused

\* a call of as_buffers; its caller fills what it was handed
EngineAsBuffers ==
    /\ Len(memory.requested) < MaxAsBuffersCalls
    /\ \E server_key \in ServerKeySizes :
          LET buffers == MemoryAsBuffers(memory.buffer, server_key)
              total == TotalElemNeeded(server_key)
          IN  memory' = [op |-> "as_buffers",
                         buffer |-> [i \in 1 .. Len(buffers.buffer) |->
                                        IF i <= total THEN 1 ELSE buffers.buffer[i]],
                         requested |-> Append(memory.requested, total),
                         lengths |-> Append(memory.lengths, Len(buffers.buffer)),
                         server_key |-> server_key,
                         buffers |-> buffers]
    /\ UNCHANGED <<params, ct_left, ct_right, ct_res, call, blocks,
                   out_handle, slices, local_engine, threads>>

NextArena == EngineAsBuffers

SpecArena == InitArena /\ [][NextArena]_vars

(***************************************************************************)
(* C25  The scratch arena grows and never shrinks: across any sequence of  *)
(* as_buffers calls with server keys of differing sizes the length of the  *)
(* arena is non-decreasing and after each call equals the largest          *)
(* total_elem_needed requested so far, while each call hands out exactly   *)
(* total_elem_needed elements (accumulator, after-keyswitch and after-PBS  *)
(* buffers).                                                               *)
(***************************************************************************)
RECURSIVE MaxRequested(_, _)
MaxRequested(requested, n) ==
    IF n = 0 THEN 0
    ELSE LET before == MaxRequested(requested, n - 1)
         IN  IF requested[n] > before THEN requested[n] ELSE before

C25_ArenaGrowsNeverShrinks ==
    memory.op = "as_buffers" =>
        /\ \A n \in 1 .. Len(memory.lengths) :
              /\ memory.lengths[n] = MaxRequested(memory.requested, n)
              /\ n > 1 => memory.lengths[n] >= memory.lengths[n - 1]
        /\ Len(memory.buffer) = memory.lengths[Len(memory.lengths)]
        /\ LET buffers == memory.buffers
               server_key == memory.server_key
           IN  /\ buffers.accumulator.len =
                      server_key.glwe_size * server_key.polynomial_size
               /\ buffers.buffer_lwe_after_ks.len = server_key.output_lwe_size
               /\ buffers.buffer_lwe_after_pbs.len =
                      server_key.output_lwe_dimension + 1
               /\ buffers.accumulator.first = 1
               /\ buffers.buffer_lwe_after_ks.first =
                      buffers.accumulator.first + buffers.accumulator.len
               /\ buffers.buffer_lwe_after_pbs.first =
                      buffers.buffer_lwe_after_ks.first
                          + buffers.buffer_lwe_after_ks.len
               /\ buffers.buffer_lwe_after_pbs.first
                      + buffers.buffer_lwe_after_pbs.len - 1
                      = TotalElemNeeded(server_key)

C25_Witness ==
    /\ memory.op = "as_buffers"
    /\ memory.requested = <<15, 9, 29>>
    /\ memory.lengths = <<15, 15, 29>>
    /\ Len(memory.buffer) = 29
    /\ memory.buffers.buffer_lwe_after_pbs = View(21, 9)

(***************************************************************************)
(* The typed API on booleans, as test_with_context of typed_api/tests.rs   *)
(* uses it: two FheBool encrypted under the client key, their conjunction  *)
(* evaluated inside with_server_key_as_context, the result decrypted.  A   *)
(* boolean is encoded as plus or minus an eighth of the torus; a gate is a *)
(* linear combination followed by a bootstrap to the sign of the phase.    *)
(* ct_left, ct_right and ct_res are a, b and r; call.message and           *)
(* call.modulus keep the clear values of a and b (0 for false, 1 for       *)
(* true), call.out the decrypted r.                                        *)
(***************************************************************************)
PlaintextTrue == TorusModulus \div 8

PlaintextFalse == Wrap(0 - PlaintextTrue)

BooleanEncode(message) == IF message THEN PlaintextTrue ELSE PlaintextFalse

\* the phase is in the upper half of the torus circle
BooleanDecode(phase) == phase < HalfTorus

FheBoolEncrypt(message, e) ==
    Lwe("boolean_client_key", Wrap(BooleanEncode(message) + e))

FheBoolDecrypt(ct) == BooleanDecode(LweDecrypt("boolean_client_key", ct))

\* a gate: bootstrap to plus or minus an eighth, with the noise of the PBS
BooleanBootstrap(phase, e) ==
    Lwe("boolean_client_key", Wrap(BooleanEncode(BooleanDecode(phase)) + e))

\* a & b
FheBoolBitAnd(left, right, e) ==
    BooleanBootstrap(Wrap(left.phase + right.phase + PlaintextFalse), e)

\* a | b
FheBoolBitOr(left, right, e) ==
    BooleanBootstrap(Wrap(left.phase + right.phase + PlaintextTrue), e)

\* with_server_key_as_context(sks, func): func runs with sks installed
WithServerKeyAsContext(func) == func

Bit(message) == IF message THEN 1 ELSE 0

InitTyped ==
    /\ params = Param(2, 1, 8)
    /\ \E a \in BOOLEAN, b \in BOOLEAN, e1 \in NoiseSet, e2 \in NoiseSet :
          /\ ct_left = FheBoolEncrypt(a, e1)
          /\ ct_right = FheBoolEncrypt(b, e2)
          /\ call = [NoCall EXCEPT !.message = Bit(a), !.modulus = Bit(b)]
    /\ ct_res = NoCt
    /\ blocks = Unused
    /\ memory = Unused
    /\ out_handle = Unused
    /\ slices = Unused
    /\ local_engine = Unused
    /\ threads = Unused

TypedWithContextBitAnd ==
    /\ call.op = "none"
    /\ \E e \in NoiseSet :
          ct_res' = WithServerKeyAsContext(FheBoolBitAnd(ct_left, ct_right, e))
    /\ call' = [call EXCEPT !.op = "bitand"]
    /\ UNCHANGED <<params, ct_left, ct_right, blocks, memory, out_handle,
                   slices, local_engine, threads>>

TypedWithContextBitOr ==
    /\ call.op = "none"
    /\ \E e \in NoiseSet :
          ct_res' = WithServerKeyAsContext(FheBoolBitOr(ct_left, ct_right, e))
    /\ call' = [call EXCEPT !.op = "bitor"]
    /\ UNCHANGED <<params, ct_left, ct_right, blocks, memory, out_handle,
                   slices, local_engine, threads>>

TypedDecrypt ==
    /\ call.op # "none"
    /\ call.dec = "none"
    /\ call' = [call EXCEPT !.dec = "decrypt",
                            !.out = Bit(FheBoolDecrypt(ct_res))]
    /\ UNCHANGED <<params, ct_left, ct_right, ct_res, blocks, memory,
                   out_handle, slices, local_engine, threads>>

NextTyped ==
    \/ TypedWithContextBitAnd
    \/ TypedWithContextBitOr
    \/ TypedDecrypt

SpecTyped == InitTyped /\ [][NextTyped]_vars

(***************************************************************************)
(* C26  As asserted by test_with_context: a AND b evaluated inside         *)
(* with_server_key_as_context, with a an encryption of false and b an      *)
(* encryption of true under the matching client key, decrypts to true.     *)
(***************************************************************************)
C26_TestWithContext ==
    (/\ call.op = "bitand"
     /\ call.dec = "decrypt"
     /\ call.message = 0
     /\ call.modulus = 1) => call.out = 1

(***************************************************************************)
(* C27  propagate_parallelized(ctxt, i) is a no-op when block i has an     *)
(* empty carry (degree < message_modulus): no PBS is run and every block   *)
(* of ctxt, blocks i and i+1 included, is left unchanged.                  *)
(***************************************************************************)
PropagateOfEmptyCarry ==
    /\ call.op = "none"
    /\ call'.op = "propagate_parallelized"
    /\ CarryIsEmpty(blocks[call'.message + 1])

C27_EmptyCarryNoOp == [][PropagateOfEmptyCarry => blocks' = blocks]_vars

C27_Witness ==
    /\ call.op = "propagate_parallelized"
    /\ call.message = 1
    /\ CarryIsEmpty(call.left0)
    /\ call.left0.degree = params.message_modulus - 1
    /\ blocks[2] = call.left0
    /\ blocks[3] = call.right0
    /\ DecryptMessageAndCarry(params, blocks[2]) = 1

(***************************************************************************)
(* Accumulators for polynomial sizes of any kind, those smaller than       *)
(* message_modulus * carry_modulus included (specification                 *)
(* SpecAccumulatorSizes): the calls of SpecAccumulator, on more sizes.     *)
(***************************************************************************)
SmallPolynomialSizes == { Param(2, 2, 2), Param(4, 2, 4), Param(4, 4, 8) }

InitAccumulatorSizes ==
    /\ params \in ClientParamSets \cup SmallPolynomialSizes
    /\ \E buffer \in BufferContents(params) :
          memory = [op |-> "none", buffer |-> buffer, table |-> NoTable,
                    f |-> <<>>, f2 |-> <<>>, scaling |-> 0]
    /\ ct_left = NoCt
    /\ ct_right = NoCt
    /\ ct_res = NoCt
    /\ call = NoCall
    /\ blocks = <<>>
    /\ out_handle = Unused
    /\ slices = Unused
    /\ local_engine = Unused
    /\ threads = Unused

SpecAccumulatorSizes == InitAccumulatorSizes /\ [][NextAccumulator]_vars

(***************************************************************************)
(* C28  The accumulator's stored degree is the maximum of f: for every f,  *)
(* generate_accumulator (and fill_accumulator's return value) yields       *)
(* degree = max over i in [0, message_modulus * carry_modulus) of f(i),    *)
(* for every polynomial size, those smaller than                           *)
(* message_modulus * carry_modulus included.                               *)
(***************************************************************************)
\* the function tabulated by the call, and the degree its table records
Tabulated ==
    IF memory.op = "generate_accumulator" THEN memory.f
    ELSE [n \in 0 .. (ModulusSup(params) - 1) |-> n % params.message_modulus]

DegreeIsMaximum ==
    memory.table.degree
        = MaxOf({ Tabulated[i] : i \in 0 .. (ModulusSup(params) - 1) })

UnivariateCase ==
    memory.op \in {"generate_accumulator",
                   "get_carry_clearing_accumulator_and_buffers"}

C28_DegreeIsMaximum == UnivariateCase => DegreeIsMaximum

\* amended: for the polynomial sizes of at least
\* message_modulus * carry_modulus coefficients
C28_DegreeIsMaximumWhenBoxesExist ==
    (UnivariateCase /\ params.polynomial_size >= ModulusSup(params)) =>
        DegreeIsMaximum

C28_Witness ==
    /\ memory.op = "generate_accumulator"
    /\ params = Param(3, 2, 12)
    /\ memory.f[2] = 5
    /\ memory.f[3] = 1
    /\ memory.table.degree = 5


(***************************************************************************)
(* The carries after full_propagate_parallelized (specification SpecRadix). *)
(***************************************************************************)
\* the degree of every block of the ciphertext handed to the call: a fresh
\* block has degree message_modulus - 1, and call.noise additions add as
\* many to it
InputDegree == (call.noise + 1) * (params.message_modulus - 1)

\* every block's degree leaves room for one incoming carry
RoomForOneCarry ==
    InputDegree + params.carry_modulus - 1 <= ModulusSup(params) - 1

\* C29: after full_propagate_parallelized on a radix ciphertext in which
\* every block's degree leaves room for one incoming carry, every block has
\* an empty carry (degree < message_modulus).
C29_FullPropagateEmptiesCarries ==
    (call.op = "full_propagate_parallelized" /\ RoomForOneCarry) =>
        \A i \in 1 .. NumBlocks : CarryIsEmpty(blocks[i])


(***************************************************************************)
(* The two bootstraps of propagate_parallelized, step by step              *)
(* (specification SpecJoin).  rayon::join(a, b) hands two closures to the  *)
(* fork-join executor: each is run once, by the calling thread or by a     *)
(* worker that steals it, in either order or at the same time, and join    *)
(* returns both results when both are done.  Each closure is one           *)
(* server-key operation: it reads the block it captured and runs its       *)
(* bootstrap inside with_thread_local_mut on the thread that runs it,      *)
(* without yielding to the executor in between.  The caller is one of the   *)
(* threads, the first in the witness.                                      *)
(***************************************************************************)
Closures == {"carry_extract", "message_extract"}

NoJoin ==
    [pc |-> "idle", index |-> 0, ctxt |-> <<>>, concurrent |-> FALSE,
     state |-> [c \in Closures |-> "none"],
     thread |-> [c \in Closures |-> 0],
     read |-> [c \in Closures |-> NoCt],
     noise |-> [c \in Closures |-> 0],
     result |-> [c \in Closures |-> NoCt]]

\* the bootstrap of a closure
Extract(c, p, ct, e) ==
    IF c = "carry_extract" THEN CarryExtract(p, ct, e) ELSE MessageExtract(p, ct, e)

\* the radix ciphertexts handed to propagate_parallelized: sums of two fresh
\* encryptions, and fresh encryptions
InitJoin ==
    /\ params \in RadixParamSets
    /\ \E msg1 \in RadixMessages :
          \/ \E msg2 \in {0, MaxRadixMessage} :
                blocks = RadixUncheckedAdd(RadixEncrypt(params, msg1),
                                           RadixEncrypt(params, msg2))
          \/ blocks = RadixEncrypt(params, msg1)
    /\ call = NoCall
    /\ memory = NoJoin
    /\ local_engine = [t \in Threads |-> NoEngine]
    /\ threads = [t \in Threads |-> Idle]
    /\ out_handle = Unused
    /\ slices = Unused
    /\ ct_left = NoCt
    /\ ct_right = NoCt
    /\ ct_res = NoCt

\* propagate_parallelized(ctxt, index) up to rayon::join: the early return,
\* or the two closures handed to the executor
JoinLaunch ==
    /\ memory.pc = "idle"
    /\ \E index \in 0 .. (NumBlocks - 1) :
          IF CarryIsEmpty(blocks[index + 1])
          THEN /\ memory' = [memory EXCEPT !.pc = "returned", !.index = index,
                                           !.ctxt = blocks]
               /\ call' = Call("propagate_parallelized", index, 0, 0)
          ELSE /\ memory' = [memory EXCEPT !.pc = "joining", !.index = index,
                                           !.ctxt = blocks,
                                           !.state = [c \in Closures |-> "pending"]]
               /\ call' = call
    /\ UNCHANGED <<params, ct_left, ct_right, ct_res, blocks, out_handle, slices,
                   local_engine, threads>>

\* thread t takes closure c: the closure reads its block and enters
\* with_thread_local_mut
ClosureStart(c, t) ==
    /\ memory.pc = "joining"
    /\ memory.state[c] = "pending"
    /\ threads[t].pc = "idle"
    /\ LET borrow == BorrowMut(With(local_engine, t), t)
       IN  /\ local_engine' = borrow.engines
           /\ threads' = [threads EXCEPT
                  ![t].pc = IF borrow.panicked THEN "panicked" ELSE "in_engine",
                  ![t].calls = @ + 1]
    /\ memory' = [memory EXCEPT
          !.state[c] = "running",
          !.thread[c] = t,
          !.read[c] = blocks[memory.index + 1],
          !.concurrent = @ \/ (\E d \in Closures : memory.state[d] = "running")]
    /\ UNCHANGED <<params, ct_left, ct_right, ct_res, call, blocks, out_handle, slices>>

\* the bootstrap of closure c returns and its thread leaves
\* with_thread_local_mut
ClosureFinish(c) ==
    /\ memory.pc = "joining"
    /\ memory.state[c] = "running"
    /\ threads[memory.thread[c]].pc = "in_engine"
    /\ \E e \in NoiseSet :
          memory' = [memory EXCEPT
              !.state[c] = "done",
              !.noise[c] = e,
              !.result[c] = Extract(c, params, memory.read[c], e)]
    /\ local_engine' = Release(local_engine, memory.thread[c])
    /\ threads' = [threads EXCEPT ![memory.thread[c]].pc = "idle"]
    /\ UNCHANGED <<params, ct_left, ct_right, ct_res, call, blocks, out_handle, slices>>

\* rayon::join returns (carry, message); *block = message; the carry is
\* added unless the block is the last
JoinReturn ==
    /\ memory.pc = "joining"
    /\ \A c \in Closures : memory.state[c] = "done"
    /\ LET is_last_block == memory.index = Len(blocks) - 1
           carry == memory.result["carry_extract"]
           message == memory.result["message_extract"]
       IN  blocks' = IF ~is_last_block
                     THEN [blocks EXCEPT ![memory.index + 1] =
                                             UncheckedAddAssign(message, carry)]
                     ELSE [blocks EXCEPT ![memory.index + 1] = message]
    /\ memory' = [memory EXCEPT !.pc = "returned"]
    /\ call' = Call("propagate_parallelized", memory.index, 0, 0)
    /\ UNCHANGED <<params, ct_left, ct_right, ct_res, out_handle, slices,
                   local_engine, threads>>

NextJoin ==
    \/ JoinLaunch
    \/ \E c \in Closures, t \in Threads : ClosureStart(c, t)
    \/ \E c \in Closures : ClosureFinish(c)
    \/ JoinReturn

SpecJoin == InitJoin /\ [][NextJoin]_vars

=============================================================================
